---- MODULE Spec2Model ----
(***************************************************************************)
(* InvestorIntel.Ai: the pitch-deck analysis orchestrator and its two API  *)
(* endpoints, the embedding manager over the vector index, the relevance   *)
(* gate of the conversational assistant and the two-way chunker; the       *)
(* relational layer, the auth calls and the investor views; the report     *)
(* pipeline DAG, the catalog scraper, the news search and /health.         *)
(*                                                                         *)
(* Python values are modelled as follows.  A missing key, None, "" and an  *)
(* empty list/dict are all falsy for the `not x.get(k)` tests of the code; *)
(* strings use "" for a missing key, lists use <<>>, the summary dict uses *)
(* NoSummary.  None in a JSON payload is the token None.  Similarity       *)
(* scores are tenths (0.3 is 3).                                           *)
(***************************************************************************)
EXTENDS Integers, Sequences, FiniteSets, TLC

VARIABLES
    \* ---- backend/langgraph_builder.py, backend/main_app.py ----
    embedding_manager,  \* langgraph_builder.embedding_manager is not None
    graph,              \* main_app.graph: "None" or "compiled"
    endpoint,           \* request being handled: "idle", "process-pitch-deck", "analyze"
    temp_dir,           \* tempfile.TemporaryDirectory of the request: "none", "exists", "removed"
    node,               \* position of the graph run
    state,              \* channel values of the run (AnalysisState)
    trace,              \* nodes executed by the run, in order
    calls,              \* external calls made by the run, in order
    node_error,         \* text the run's process_pitch_deck stored under state["error"]
    generated_summary,  \* text summarize_pitch_deck_with_gemini returned in this run
    response,           \* HTTP answer of the request
    requests,           \* requests handled so far
    wh_summary,         \* PITCH_DECKS.STARTUP_SUMMARY rows by startup_name
    wh_reports,         \* MARKET_RESEARCH.INDUSTRY_REPORTS by Industry_Name
    wh_companies,       \* GROWJO_SCHEMA.COMPANY_MERGED_VIEW by Industry
    \* ---- backend/pinecone_pipeline/embedding_manager.py, main.py ----
    index,              \* records of the Pinecone index "investor-intel", oldest first
    pm_embedding_manager, \* pinecone_pipeline.main.embedding_manager is not None
    last_op,            \* the last embedding-manager/endpoint operation and its outcome
    ops,                \* operations performed so far
    \* ---- backend/pinecone_pipeline/gemini_assistant.py ----
    pq,                 \* one process_query_with_results call
    \* ---- create_chunks_from_summary ----
    ck,                 \* one create_chunks_from_summary call
    \* ---- generate_report called on its own ----
    gr,                 \* one generate_report call
    \* ---- backend/database, the /add-*, /fetch-* endpoints of main_app.py ----
    db,                 \* warehouse tables investor, startup, startup_investor_map and the auth table
    api,                \* the last data-layer or endpoint call and its outcome
    \* ---- frontend/views/home.py, investor_dashboard.py ----
    ui,                 \* st.session_state of the investor login/signup view
    dash,               \* st.session_state and main panel of the investor dashboard
    \* ---- /chat of main_app.py ----
    chat_call,               \* one /chat request
    \* ---- Airflow/dags/market_research_dag.py ----
    dag,                \* one run of industry_reports_pipeline
    \* ---- the fetch nodes of langgraph_builder.py called on their own ----
    nd,                 \* one fetch_summary / fetch_industry_report / fetch_competitors call
    \* ---- backend/pipeline/scrape_growjo.py ----
    scrape,             \* one scrape_growjo_data call
    \* ---- mcp_google_search_agent.py, websearchAgent.py ----
    news_call,          \* one google_search_with_fallback / search_with_fallback call
    \* ---- /health of main.py and pinecone_pipeline/main.py ----
    health,             \* one /health request
    \* ---- concurrent EmbeddingManager.update_investment_status calls ----
    race,               \* the index and the position of each of the two calls
    \* ---- concurrent investor_login.signup_investor calls ----
    signup_calls        \* the credential table and the position of each signup call

vars == << embedding_manager, graph, endpoint, temp_dir, node, state, trace,
           calls, node_error, generated_summary, response, requests,
           wh_summary, wh_reports, wh_companies,
           index, pm_embedding_manager, last_op, ops, pq, ck, gr,
           db, api, ui, dash, chat_call, dag, nd, scrape, news_call, health, race,
           signup_calls >>

call_vars == << nd, scrape, news_call, health, race,
           signup_calls >>

ext_vars == << db, api, ui, dash, chat_call, dag, call_vars >>

orch_vars == << embedding_manager, graph, endpoint, temp_dir, node, state, trace,
                calls, node_error, generated_summary, response, requests,
                wh_summary, wh_reports, wh_companies >>
index_vars == << index, pm_embedding_manager, last_op, ops >>

None == "<None>"

(***************************************************************************)
(* Bounds                                                                  *)
(***************************************************************************)
MaxRequests == 2      \* requests per behaviour of the API process
MaxOps == 3           \* embedding-manager operations per behaviour
MaxResults == 6       \* search results handed to the assistant
MaxLines == 3         \* lines of a summary handed to the chunker
MaxTokens == 2        \* tokens per line
MaxApiOps == 2        \* data-layer and endpoint calls per behaviour
MaxNames == 2         \* usernames handed to map_startup_to_investors
MaxHits == 2          \* hits the vector search of a /chat request returns
MaxRecords == 2       \* records of the startup two concurrent updates rewrite
MaxSignups == 3       \* signup calls in flight over the credential table
MaxPages == 3         \* result pages of the company catalog
MaxParses == 4        \* pages one scrape parses
MaxRuns == 4          \* widget events per behaviour of the dashboard

(***************************************************************************)
(* Vector index and embedding manager                                      *)
(***************************************************************************)
\* top_k of the query in update_investment_status
UpdateTopK == 100
\* default top_k of search_similar_startups
SearchTopK == 5

\* str.lower() on the names and the characters of the model
Lower(name) ==
    CASE name = "Uber" -> "uber"
      [] name = "U" -> "u"
      [] name = "B" -> "b"
      [] name = "UBER" -> "uber"
      [] name = "Lyft" -> "lyft"
      [] name = "Alice" -> "alice"
      [] name = "Test No Results" -> "test no results"
      [] OTHER -> name

ChunkTypes == << "Business Overview & Market Opportunity", "Team & Investment Details" >>

\* metadata of one upserted record (vector and text left out)
Metadata(startup_name, industry, chunk_type) ==
    [ startup_name |-> startup_name, industry |-> industry,
      chunk_type |-> chunk_type, invested |-> "no" ]

\* outcome token of the external calls: which call raises, if any
NoFail == -1

\* position of record i among the records of the startup, oldest first
Rank(idx, name, i) == Cardinality({ j \in 1..i : idx[j].startup_name = name })

\* index.query(filter={"startup_name": {"$eq": name}}, top_k=k): the ids
\* (positions) of the matching records, at most k of them.  Which k of more
\* than k matches are returned depends on the stored vectors; the oldest are
\* taken.
MatchIds(idx, name, k) ==
    LET matching == { i \in 1..Len(idx) : idx[i].startup_name = name }
    IN IF Cardinality(matching) <= k THEN matching
       ELSE { i \in matching : Rank(idx, name, i) <= k }

\* store_summary_embeddings: one upsert per chunk, each under a fresh id
\* (name + timestamp + chunk number); fail_at = i means the encode/upsert of
\* chunk i raises, which the method turns into False.  The body performs no
\* look-up of existing records before upserting.
StoreSummaryEmbeddings(idx, startup_name, industry, fail_at) ==
    LET n == IF fail_at = NoFail THEN Len(ChunkTypes) ELSE fail_at - 1
        new == [ i \in 1..n |-> Metadata(startup_name, industry, ChunkTypes[i]) ]
    IN [ index |-> idx \o new, ok |-> fail_at = NoFail ]

\* the loop leaving out the last id
UpdateLoop_SkipLast(idx, ids, name, status, fail_at) ==
    LET raises == fail_at # NoFail /\ fail_at <= Cardinality(ids) - 1
        done == IF raises THEN fail_at - 1 ELSE Cardinality(ids) - 1
    IN [ index |-> [ i \in 1..Len(idx) |->
                       IF i \in ids /\ (done = Cardinality(ids) \/ Rank(idx, name, i) <= done)
                       THEN [ idx[i] EXCEPT !.invested = status ]
                       ELSE idx[i] ],
         ok |-> ~raises ]

\* the loop of update_investment_status over ids_to_update, in the order of
\* the matches: fetch the record, set metadata["invested"], upsert it;
\* fail_at = j means the j-th fetch/upsert raises, after j - 1 records were
\* rewritten.  (The `continue` on a fetch that misses needs a record deleted
\* between the query and the fetch; nothing in the program deletes records.)
UpdateLoop(idx, ids, name, status, fail_at) ==
    LET raises == fail_at # NoFail /\ fail_at <= Cardinality(ids)
        done == IF raises THEN fail_at - 1 ELSE Cardinality(ids)
    IN [ index |-> [ i \in 1..Len(idx) |->
                       IF i \in ids /\ (done = Cardinality(ids) \/ Rank(idx, name, i) <= done)
                       THEN [ idx[i] EXCEPT !.invested = status ]
                       ELSE idx[i] ],
         ok |-> ~raises ]

\* update_investment_status(startup_name, status); fail_at = 0: the query raises
UpdateInvestmentStatus(idx, startup_name, status, fail_at) ==
    IF fail_at = 0 THEN [ index |-> idx, ok |-> FALSE ]
    ELSE LET ids_to_update == MatchIds(idx, startup_name, UpdateTopK)
         IN IF ids_to_update = { } THEN [ index |-> idx, ok |-> FALSE ]
            ELSE UpdateLoop(idx, ids_to_update, startup_name, status, fail_at)

\* ids of the records passing the metadata filter of search_similar_startups
\* ("" is no filter)
FilterIds(idx, industry, invested) ==
    { i \in 1..Len(idx) : /\ (industry = "" \/ idx[i].industry = industry)
                          /\ (invested = "" \/ idx[i].invested = invested) }

\* one processed result of search_similar_startups for the match with this id
SearchResult(idx, id) ==
    [ startup_name |-> idx[id].startup_name, industry |-> idx[id].industry,
      chunk_type |-> idx[id].chunk_type, invested |-> idx[id].invested ]

\* search_similar_startups: top_k of the filtered records.  The ranking is
\* the index's; newest_first picks between the two ends of the candidates.
SearchSimilarStartups(idx, industry, invested, top_k, newest_first) ==
    LET cand == FilterIds(idx, industry, invested)
        matches == IF newest_first
                   THEN { i \in cand : Cardinality({ j \in cand : j >= i }) <= top_k }
                   ELSE { i \in cand : Cardinality({ j \in cand : j <= i }) <= top_k }
    IN [ r \in 1..Cardinality(matches) |->
           SearchResult(idx, CHOOSE i \in matches :
                                Cardinality({ j \in matches : j <= i }) = r) ]

\* number of records of a startup
CountName(idx, name) == Cardinality({ i \in 1..Len(idx) : idx[i].startup_name = name })

(***************************************************************************)
(* pinecone_pipeline/main.py: the endpoints over the embedding manager     *)
(***************************************************************************)
IndexNames == { "uber", "Uber" }
StatusValues == { "yes", "no", "maybe" }
StoreFailPoints == { 1, 2, NoFail }
UpdateFailPoints == { 0, 2, NoFail }

\* an index left by earlier runs of the service: n records of "uber",
\* two per processed pitch deck, none invested
Preloaded(n) ==
    [ i \in 1..n |-> Metadata("uber", "travel", ChunkTypes[2 - (i % 2)]) ]
PreloadSizes == { 0, UpdateTopK }

NoOp == [ op |-> "none", name |-> "", status |-> "", status_code |-> 0, ok |-> FALSE,
          called |-> FALSE, pre_len |-> 0, pre_count |-> 0, pre_dup |-> FALSE,
          hits |-> << >>, settled |-> << >> ]

\* name, status and record count of the last update that returned True,
\* dropped when records of that startup are stored afterwards or another
\* update of it fails
Settled == last_op.settled

InitIndex ==
    /\ index \in { Preloaded(n) : n \in PreloadSizes }
    /\ pm_embedding_manager \in BOOLEAN
    /\ last_op = NoOp
    /\ ops = 0

\* POST /process-pitch-deck of pinecone_pipeline/main.py, from the embedding
\* step on: store the summary's chunks unless the manager is disabled
StorePitchDeck(startup_name, fail_at) ==
    /\ ops < MaxOps
    /\ ops' = ops + 1
    /\ IF pm_embedding_manager
       THEN LET r == StoreSummaryEmbeddings(index, startup_name, "travel", fail_at)
            IN /\ index' = r.index
               /\ last_op' = [ NoOp EXCEPT !.op = "store", !.name = startup_name,
                      !.status = IF r.ok THEN "success" ELSE "failed",
                      !.status_code = 200, !.ok = r.ok, !.called = TRUE,
                      !.pre_len = Len(index),
                      !.pre_count = CountName(index, startup_name),
                      !.pre_dup = \E i \in 1..Len(index) :
                                     /\ index[i].startup_name # startup_name
                                     /\ Lower(index[i].startup_name) = Lower(startup_name),
                      !.settled = IF Settled # << >> /\ Settled[1] = startup_name
                                  THEN << >> ELSE Settled ]
       ELSE /\ index' = index
            /\ last_op' = [ NoOp EXCEPT !.op = "store", !.name = startup_name,
                   !.status = "skipped", !.status_code = 200,
                   !.pre_len = Len(index), !.settled = Settled ]
    /\ UNCHANGED << pm_embedding_manager, orch_vars, pq, ck, gr, ext_vars >>

\* a validation that lets every non-empty status through
ValidStatus_NonEmpty(status) == status # ""

\* `status not in ["yes", "no"]` is the 400 case
ValidStatus(status) == status \in { "yes", "no" }

\* POST /update-investment-status
UpdateInvestmentStatusEndpoint(startup_name, status, fail_at) ==
    /\ ops < MaxOps
    /\ ops' = ops + 1
    /\ IF ~pm_embedding_manager
       THEN /\ index' = index
            /\ last_op' = [ NoOp EXCEPT !.op = "update", !.name = startup_name,
                   !.status = status, !.status_code = 503, !.settled = Settled ]
       ELSE IF ~ValidStatus(status)
       THEN /\ index' = index
            /\ last_op' = [ NoOp EXCEPT !.op = "update", !.name = startup_name,
                   !.status = status, !.status_code = 400, !.settled = Settled ]
       ELSE LET r == UpdateInvestmentStatus(index, startup_name, status, fail_at)
            IN /\ index' = r.index
               /\ last_op' = [ NoOp EXCEPT !.op = "update", !.name = startup_name,
                      !.status = status, !.called = TRUE, !.ok = r.ok,
                      !.status_code = IF r.ok THEN 200 ELSE 404,
                      !.pre_len = Len(index),
                      !.pre_count = CountName(index, startup_name),
                      !.settled = IF r.ok
                                  THEN << startup_name, status,
                                          CountName(index, startup_name) >>
                                  ELSE IF Settled # << >> /\ Settled[1] = startup_name
                                  THEN << >> ELSE Settled ]
    /\ UNCHANGED << pm_embedding_manager, orch_vars, pq, ck, gr, ext_vars >>

\* EmbeddingManager.search_similar_startups called on the manager (as /chat
\* does, with top_k = 5); ok = FALSE: encode or query raises and the method
\* returns []
SearchSimilarStartupsCall(invested, newest_first, ok) ==
    /\ ops < MaxOps
    /\ pm_embedding_manager
    /\ ops' = ops + 1
    /\ last_op' = [ NoOp EXCEPT !.op = "search", !.status = invested,
                       !.status_code = 200, !.called = TRUE, !.ok = ok,
                       !.hits = IF ok
                                THEN SearchSimilarStartups(index, "", invested,
                                                           SearchTopK, newest_first)
                                ELSE << >>,
                       !.settled = Settled ]
    /\ UNCHANGED << index, pm_embedding_manager, orch_vars, pq, ck, gr, ext_vars >>

NextIndex ==
    \/ \E n \in IndexNames, f \in StoreFailPoints : StorePitchDeck(n, f)
    \/ \E n \in IndexNames, st \in StatusValues, f \in UpdateFailPoints :
           UpdateInvestmentStatusEndpoint(n, st, f)
    \/ \E inv \in { "", "yes", "no" }, nf \in BOOLEAN, ok \in BOOLEAN :
           SearchSimilarStartupsCall(inv, nf, ok)

InitIndexIdle ==
    /\ index = << >>
    /\ pm_embedding_manager = FALSE
    /\ last_op = NoOp
    /\ ops = 0

(***************************************************************************)
(* Warehouse tables read and written by langgraph_builder.py               *)
(***************************************************************************)
StartupNames == { "uber", "Unknown" }
Industries == { "travel", "Unknown" }
\* LIMIT 10 of get_top_companies
TopCompanies == 10

NoRow == [ present |-> FALSE, industry |-> "", short_description |-> "",
           analysis_report |-> "", news |-> "" ]
Row(industry) == [ present |-> TRUE, industry |-> industry,
                   short_description |-> "stored description",
                   analysis_report |-> "", news |-> "" ]
NoReport == [ present |-> FALSE, Report_Summary |-> "" ]
Companies == << [ COMPANY |-> "c1", REVENUE |-> 50 ], [ COMPANY |-> "c2", REVENUE |-> 30 ] >>

\* the summary dict; "" is a missing key or None
NoSummary == [ STARTUP_NAME |-> "", INDUSTRY |-> "", SHORT_DESCRIPTION |-> "", error |-> "" ]

get_startup_summary(wh, startup_name) ==
    IF wh[startup_name].present
    THEN [ STARTUP_NAME |-> startup_name, INDUSTRY |-> wh[startup_name].industry,
           SHORT_DESCRIPTION |-> wh[startup_name].short_description, error |-> "" ]
    ELSE [ NoSummary EXCEPT !.error = "Startup not found." ]

get_industry_report(industry_name) ==
    IF wh_reports[industry_name].present
    THEN wh_reports[industry_name].Report_Summary
    ELSE "No report found."

get_top_companies(industry_name) ==
    LET rows == wh_companies[industry_name]
    IN SubSeq(rows, 1, IF Len(rows) < TopCompanies THEN Len(rows) ELSE TopCompanies)

\* UPDATE ... SET analysis_report = %s WHERE startup_name = %s
store_analysis_report(wh, startup_name, report_text) ==
    IF wh[startup_name].present
    THEN [ wh EXCEPT ![startup_name].analysis_report = report_text ]
    ELSE wh

\* UPDATE ... SET news = %s WHERE startup_name = %s
store_news_in_snowflake(wh, startup_name, news) ==
    IF wh[startup_name].present
    THEN [ wh EXCEPT ![startup_name].news = news ]
    ELSE wh

(***************************************************************************)
(* The analysis graph: state schema, nodes, edges                          *)
(***************************************************************************)
\* keys declared by the TypedDict AnalysisState
AnalysisStateKeys ==
    { "pdf_file_path", "startup_name", "industry", "linkedin_urls", "website_url",
      "original_filename", "summary", "industry_report", "competitors",
      "final_report", "news" }

EmptyState ==
    [ pdf_file_path |-> "", startup_name |-> "", industry |-> "",
      linkedin_urls |-> << >>, website_url |-> "", original_filename |-> "",
      summary |-> NoSummary, industry_report |-> "", competitors |-> << >>,
      final_report |-> "", news |-> "" ]

\* the dict a node works on: the channel values; the keys the nodes add on
\* top of the schema start out missing
NodeInput(s) == s @@ [ error |-> "", s3_location |-> "", embedding_status |-> "" ]

\* StateGraph(AnalysisState): a node's returned dict updates the channels of
\* the declared keys; other keys of the dict have no channel and are not kept
ChannelUpdate(ret) == [ k \in AnalysisStateKeys |-> ret[k] ]

\* the lambda of set_conditional_entry_point
EntryPoint(s) == IF s.pdf_file_path # "" THEN "process_pitch_deck" ELSE "fetch_summary"

\* the edges with store_report left out of the chain
NextNode_SkipStore(n) ==
    CASE n = "process_pitch_deck" -> "fetch_summary"
      [] n = "fetch_summary" -> "fetch_industry_report"
      [] n = "fetch_industry_report" -> "fetch_competitors"
      [] n = "fetch_competitors" -> "generate_report"
      [] n = "generate_report" -> "fetch_news"
      [] n = "store_report" -> "fetch_news"
      [] n = "fetch_news" -> "END"

\* add_edge
NextNode(n) ==
    CASE n = "process_pitch_deck" -> "fetch_summary"
      [] n = "fetch_summary" -> "fetch_industry_report"
      [] n = "fetch_industry_report" -> "fetch_competitors"
      [] n = "fetch_competitors" -> "generate_report"
      [] n = "generate_report" -> "store_report"
      [] n = "store_report" -> "fetch_news"
      [] n = "fetch_news" -> "END"

SummaryText == "investor summary of the deck"
ReportText == "generated VC report"
S3Url == "https://s3/presigned"
ErrProcessing == "Error processing pitch deck: <exception text>"

\* keyword parameters of EmbeddingManager.store_summary_embeddings
StoreSummaryEmbeddingsParams ==
    { "summary", "startup_name", "industry", "linkedin_urls", "original_filename",
      "s3_location" }
\* keyword arguments of the call in the node process_pitch_deck
ProcessPitchDeckStoreKwargs ==
    { "summary", "startup_name", "industry", "website_url", "linkedin_urls",
      "original_filename", "s3_location" }

\* a node's outcome: the dict it returns, the external calls it made, whether
\* it raised, and the stores it wrote
Outcome(ret, cs, raised) ==
    [ ret |-> ret, calls |-> cs, raised |-> raised, wh |-> wh_summary, index |-> index,
      investor_summary |-> "" ]

\* upload, summ: "ok", "falsy", "raise"; store_fail: fail point of the upserts
process_pitch_deck(s, file_exists, upload, summ, store_fail) ==
    LET l == NodeInput(s) IN
    IF s.pdf_file_path = ""
    THEN Outcome([ l EXCEPT !.error = "No PDF file path provided" ], << >>, FALSE)
    ELSE IF ~file_exists
    THEN Outcome([ l EXCEPT !.error = "File doesn't exist at path" ], << >>, FALSE)
    ELSE IF upload = "raise"
    THEN Outcome([ l EXCEPT !.error = ErrProcessing ], << "upload_pitch_deck_to_s3" >>, FALSE)
    ELSE IF upload = "falsy"
    THEN Outcome([ l EXCEPT !.error = "Failed to upload file to S3" ],
                 << "upload_pitch_deck_to_s3" >>, FALSE)
    ELSE LET l1 == [ l EXCEPT !.s3_location = S3Url ]
             cs == << "upload_pitch_deck_to_s3", "summarize_pitch_deck_with_gemini" >>
             startup_name == IF s.startup_name = "" THEN "Unknown" ELSE s.startup_name
             industry == IF s.industry = "" THEN "Unknown" ELSE s.industry
             summary == [ STARTUP_NAME |-> startup_name, INDUSTRY |-> industry,
                          SHORT_DESCRIPTION |-> SummaryText, error |-> "" ]
         IN
         IF summ = "raise"
         THEN Outcome([ l1 EXCEPT !.error = ErrProcessing ], cs, FALSE)
         ELSE IF summ = "falsy"
         THEN Outcome([ l1 EXCEPT !.error = "Failed to generate summary" ], cs, FALSE)
         ELSE IF ~embedding_manager
         THEN [ Outcome([ l1 EXCEPT !.embedding_status = "skipped", !.summary = summary ],
                        cs, FALSE)
                EXCEPT !.investor_summary = SummaryText ]
         ELSE IF ~(ProcessPitchDeckStoreKwargs \subseteq StoreSummaryEmbeddingsParams)
         THEN \* TypeError: unexpected keyword argument, caught by the except
              [ Outcome([ l1 EXCEPT !.error = ErrProcessing ], cs, FALSE)
                EXCEPT !.investor_summary = SummaryText ]
         ELSE LET r == StoreSummaryEmbeddings(index, startup_name, industry, store_fail)
              IN [ Outcome([ l1 EXCEPT !.embedding_status =
                                           IF r.ok THEN "success" ELSE "failed",
                                       !.summary = summary ],
                           cs \o << "store_summary_embeddings" >>, FALSE)
                   EXCEPT !.investor_summary = SummaryText, !.index = r.index ]

\* isinstance(state["summary"], dict); a value that is not a dict (a str) is
\* a record without the summary's keys
IsDict(summary) == DOMAIN summary = DOMAIN NoSummary

\* fetch_summary querying the warehouse whatever the state holds
fetch_summary_AlwaysQuery(s, wh_ok) ==
    LET l == NodeInput(s) IN
    IF ~wh_ok
    THEN Outcome(l, << "get_startup_summary" >>, TRUE)
    ELSE Outcome([ l EXCEPT !.summary = get_startup_summary(wh_summary, s.startup_name) ],
                 << "get_startup_summary" >>, FALSE)

\* wh_ok: the warehouse call succeeds (FALSE: snowflake.connector raises)
fetch_summary(s, wh_ok) ==
    LET l == NodeInput(s) IN
    IF s.summary # NoSummary /\ IsDict(s.summary)
    THEN Outcome(l, << >>, FALSE)
    ELSE IF ~wh_ok
    THEN Outcome(l, << "get_startup_summary" >>, TRUE)
    ELSE Outcome([ l EXCEPT !.summary = get_startup_summary(wh_summary, s.startup_name) ],
                 << "get_startup_summary" >>, FALSE)

\* fetch_industry_report keyed by the state's industry
fetch_industry_report_StateIndustry(s, wh_ok) ==
    LET l == NodeInput(s) IN
    IF s.summary = NoSummary \/ ~IsDict(s.summary)
    THEN Outcome([ l EXCEPT !.industry_report =
                     "No industry report available - summary data missing" ], << >>, FALSE)
    ELSE IF s.summary.INDUSTRY = ""
    THEN Outcome([ l EXCEPT !.industry_report =
                     "No industry report available - industry not specified" ], << >>, FALSE)
    ELSE IF ~wh_ok
    THEN Outcome(l, << "get_industry_report" >>, TRUE)
    ELSE Outcome([ l EXCEPT !.industry_report = get_industry_report(s.industry) ],
                 << "get_industry_report" >>, FALSE)

fetch_industry_report(s, wh_ok) ==
    LET l == NodeInput(s) IN
    IF s.summary = NoSummary \/ ~IsDict(s.summary)
    THEN Outcome([ l EXCEPT !.industry_report =
                     "No industry report available - summary data missing" ], << >>, FALSE)
    ELSE IF s.summary.INDUSTRY = ""
    THEN Outcome([ l EXCEPT !.industry_report =
                     "No industry report available - industry not specified" ], << >>, FALSE)
    ELSE IF ~wh_ok
    THEN Outcome(l, << "get_industry_report" >>, TRUE)
    ELSE Outcome([ l EXCEPT !.industry_report = get_industry_report(s.summary.INDUSTRY) ],
                 << "get_industry_report" >>, FALSE)

fetch_competitors(s, wh_ok) ==
    LET l == NodeInput(s) IN
    IF s.summary = NoSummary \/ ~IsDict(s.summary) \/ s.summary.INDUSTRY = ""
    THEN Outcome([ l EXCEPT !.competitors = << >> ], << >>, FALSE)
    ELSE IF ~wh_ok
    THEN Outcome(l, << "get_top_companies" >>, TRUE)
    ELSE Outcome([ l EXCEPT !.competitors = get_top_companies(s.summary.INDUSTRY) ],
                 << "get_top_companies" >>, FALSE)

\* generate_gemini_prompt indexes startup['STARTUP_NAME'], ['INDUSTRY'] and
\* ['SHORT_DESCRIPTION']: KeyError on the not-found summary, which lacks them
PromptKeysPresent(summary) == summary.error = ""

\* generate_report with the competitors test dropped from the guard
generate_report_NoCompetitorTest(s, model_ok) ==
    LET l == NodeInput(s) IN
    IF s.summary = NoSummary \/ s.industry_report = ""
    THEN Outcome([ l EXCEPT !.final_report =
                     "Unable to generate report: Missing required data" ], << >>, FALSE)
    ELSE IF ~PromptKeysPresent(s.summary)
    THEN Outcome(l, << >>, TRUE)
    ELSE IF ~model_ok
    THEN Outcome(l, << "generate_content" >>, TRUE)
    ELSE Outcome([ l EXCEPT !.final_report = ReportText ], << "generate_content" >>, FALSE)

\* model_ok: generate_content returns text (FALSE: it raises)
generate_report(s, model_ok) ==
    LET l == NodeInput(s) IN
    IF s.summary = NoSummary \/ s.industry_report = "" \/ s.competitors = << >>
    THEN Outcome([ l EXCEPT !.final_report =
                     "Unable to generate report: Missing required data" ], << >>, FALSE)
    ELSE IF ~PromptKeysPresent(s.summary)
    THEN Outcome(l, << >>, TRUE)
    ELSE IF ~model_ok
    THEN Outcome(l, << "generate_content" >>, TRUE)
    ELSE Outcome([ l EXCEPT !.final_report = ReportText ], << "generate_content" >>, FALSE)

store_report(s, wh_ok) ==
    LET l == NodeInput(s) IN
    IF s.startup_name = "" \/ s.final_report = ""
    THEN Outcome(l, << >>, FALSE)
    ELSE IF ~wh_ok
    THEN Outcome(l, << "store_analysis_report" >>, TRUE)
    ELSE [ Outcome(l, << "store_analysis_report" >>, FALSE)
           EXCEPT !.wh = store_analysis_report(wh_summary, s.startup_name, s.final_report) ]

\* search: "hits" (one result), "none" (no result), "raise"
fetch_news(s, search, wh_ok) ==
    LET l == NodeInput(s) IN
    IF s.summary = NoSummary
    THEN Outcome([ l EXCEPT !.news = "No news available - summary data missing" ],
                 << >>, FALSE)
    ELSE IF s.summary.STARTUP_NAME = "" \/ s.summary.INDUSTRY = ""
    THEN Outcome([ l EXCEPT !.news =
                     "No news available - startup name or industry not specified" ],
                 << >>, FALSE)
    ELSE IF search = "raise"
    THEN Outcome(l, << "google_search_with_fallback" >>, TRUE)
    ELSE LET news_content == IF search = "hits" THEN "title: url" ELSE ""
             cs == << "google_search_with_fallback", "store_news_in_snowflake" >>
         IN IF ~wh_ok
            THEN Outcome(l, cs, TRUE)
            ELSE [ Outcome([ l EXCEPT !.news = news_content ], cs, FALSE)
                   EXCEPT !.wh = store_news_in_snowflake(wh_summary,
                                     s.summary.STARTUP_NAME, news_content) ]

(***************************************************************************)
(* One superstep of the compiled graph: run the current node, write its    *)
(* returned dict to the channels, follow the node's edge.  An exception    *)
(* leaving the node ends the run and leaves invoke/ainvoke.                *)
(***************************************************************************)
RunNode(n, r) ==
    /\ node = n
    /\ trace' = Append(trace, n)
    /\ calls' = calls \o r.calls
    /\ wh_summary' = r.wh
    /\ index' = r.index
    /\ IF r.raised
       THEN /\ node' = "raised"
            /\ state' = state
       ELSE /\ node' = NextNode(n)
            /\ state' = ChannelUpdate(r.ret)
    /\ UNCHANGED << embedding_manager, graph, endpoint, temp_dir, response, requests,
                    wh_reports, wh_companies, pm_embedding_manager, last_op, ops,
                    pq, ck, gr, ext_vars >>

CallOutcomes == { "ok", "falsy", "raise" }

ProcessPitchDeck(upload, summ, store_fail) ==
    LET r == process_pitch_deck(state, temp_dir = "exists", upload, summ, store_fail)
    IN /\ RunNode("process_pitch_deck", r)
       /\ node_error' = r.ret.error
       /\ generated_summary' = r.investor_summary

FetchSummary(wh_ok) ==
    /\ RunNode("fetch_summary", fetch_summary(state, wh_ok))
    /\ UNCHANGED << node_error, generated_summary >>

FetchIndustryReport(wh_ok) ==
    /\ RunNode("fetch_industry_report", fetch_industry_report(state, wh_ok))
    /\ UNCHANGED << node_error, generated_summary >>

FetchCompetitors(wh_ok) ==
    /\ RunNode("fetch_competitors", fetch_competitors(state, wh_ok))
    /\ UNCHANGED << node_error, generated_summary >>

GenerateReport(model_ok) ==
    /\ RunNode("generate_report", generate_report(state, model_ok))
    /\ UNCHANGED << node_error, generated_summary >>

StoreReport(wh_ok) ==
    /\ RunNode("store_report", store_report(state, wh_ok))
    /\ UNCHANGED << node_error, generated_summary >>

FetchNews(search, wh_ok) ==
    /\ RunNode("fetch_news", fetch_news(state, search, wh_ok))
    /\ UNCHANGED << node_error, generated_summary >>

(***************************************************************************)
(* main.py / main_app.py: POST /process-pitch-deck and POST /analyze       *)
(***************************************************************************)
NoResponse ==
    [ endpoint |-> "", status_code |-> 0, detail |-> "", s3_location |-> None,
      summary |-> None, embedding_status |-> None, final_report |-> None,
      news |-> None ]

TempPath == "<temp_dir>/temp_pitch_deck.pdf"

\* dict.get(key) on the result of invoke/ainvoke
Get(result, key) == IF key \in DOMAIN result THEN result[key] ELSE None

HttpError(ep, code, detail) ==
    [ NoResponse EXCEPT !.endpoint = ep, !.status_code = code, !.detail = detail ]

\* a cleanup that only runs on the normal return path
ExitTempDir_ReturnOnly(by_exception) == IF by_exception THEN "exists" ELSE "removed"

\* leaving `with tempfile.TemporaryDirectory() as temp_dir`: the directory is
\* removed, whether the block is left by return or by an exception
ExitTempDir(by_exception) == "removed"

\* the handler up to `await graph.ainvoke(initial_state)`: default the form
\* fields, create the temporary directory, save the upload, build the graph
\* if there is none, enter the graph
BeginProcessPitchDeck(form_name, form_industry, save_ok) ==
    /\ endpoint = "idle"
    /\ requests < MaxRequests
    /\ requests' = requests + 1
    /\ trace' = << >>
    /\ calls' = << >>
    /\ node_error' = ""
    /\ generated_summary' = ""
    /\ IF ~save_ok
       THEN /\ response' = HttpError("process-pitch-deck", 500, "Failed to save file: <exception text>")
            /\ temp_dir' = ExitTempDir(TRUE)
            /\ UNCHANGED << endpoint, node, state, graph >>
       ELSE LET initial_state ==
                    [ EmptyState EXCEPT
                        !.pdf_file_path = TempPath,
                        !.startup_name = IF form_name = "" THEN "Unknown" ELSE form_name,
                        !.industry = IF form_industry = "" THEN "Unknown" ELSE form_industry,
                        !.original_filename = "deck.pdf" ]
            IN /\ temp_dir' = "exists"
               /\ graph' = "compiled"
               /\ endpoint' = "process-pitch-deck"
               /\ response' = NoResponse
               /\ state' = initial_state
               /\ node' = EntryPoint(initial_state)
    /\ UNCHANGED << embedding_manager, wh_summary, wh_reports, wh_companies,
                    index, pm_embedding_manager, last_op, ops, pq, ck, gr, ext_vars >>

\* the handler after ainvoke: the error check, the payload, and the exit
\* from the `with tempfile.TemporaryDirectory()` block
EndProcessPitchDeck ==
    /\ endpoint = "process-pitch-deck"
    /\ node \in { "END", "raised" }
    /\ response' =
          IF node = "raised"
          THEN HttpError("process-pitch-deck", 500, "Processing error: <exception text>")
          ELSE IF "error" \in DOMAIN state
          THEN HttpError("process-pitch-deck", 500, state["error"])
          ELSE [ NoResponse EXCEPT
                   !.endpoint = "process-pitch-deck",
                   !.status_code = 200,
                   !.s3_location = Get(state, "s3_location"),
                   !.summary = Get(state, "summary_text"),
                   !.embedding_status = Get(state, "embedding_status"),
                   !.final_report = Get(state, "final_report"),
                   !.news = Get(state, "news") ]
    /\ temp_dir' = ExitTempDir(response'.status_code # 200)
    /\ endpoint' = "idle"
    /\ node' = "idle"
    /\ UNCHANGED << embedding_manager, graph, state, trace, calls, node_error,
                    generated_summary, requests, wh_summary, wh_reports, wh_companies,
                    index, pm_embedding_manager, last_op, ops, pq, ck, gr, ext_vars >>

\* POST /analyze up to graph.invoke(state)
BeginAnalyze(startup_name) ==
    /\ endpoint = "idle"
    /\ requests < MaxRequests
    /\ requests' = requests + 1
    /\ trace' = << >>
    /\ calls' = << >>
    /\ node_error' = ""
    /\ generated_summary' = ""
    /\ IF graph = "None"
       THEN \* None.invoke: AttributeError, caught by the except
            /\ response' = HttpError("analyze", 500, "'NoneType' object has no attribute 'invoke'")
            /\ UNCHANGED << endpoint, node, state >>
       ELSE LET initial_state == [ EmptyState EXCEPT !.startup_name = startup_name ]
            IN /\ endpoint' = "analyze"
               /\ response' = NoResponse
               /\ state' = initial_state
               /\ node' = EntryPoint(initial_state)
    /\ UNCHANGED << embedding_manager, graph, temp_dir, wh_summary, wh_reports,
                    wh_companies, index, pm_embedding_manager, last_op, ops, pq, ck, gr, ext_vars >>

\* POST /analyze after graph.invoke
EndAnalyze ==
    /\ endpoint = "analyze"
    /\ node \in { "END", "raised" }
    /\ response' =
          IF node = "raised"
          THEN HttpError("analyze", 500, "<exception text>")
          ELSE [ NoResponse EXCEPT !.endpoint = "analyze", !.status_code = 200,
                                   !.final_report = Get(state, "final_report") ]
    /\ endpoint' = "idle"
    /\ node' = "idle"
    /\ UNCHANGED << embedding_manager, graph, temp_dir, state, trace, calls, node_error,
                    generated_summary, requests, wh_summary, wh_reports, wh_companies,
                    index, pm_embedding_manager, last_op, ops, pq, ck, gr, ext_vars >>

PqIdle == [ pc |-> "idle" ]
CkIdle == [ pc |-> "idle" ]
GrIdle == [ pc |-> "idle" ]

ExtIdle == [ pc |-> "idle" ]

InitCallIdle ==
    /\ nd = ExtIdle
    /\ scrape = ExtIdle
    /\ news_call = ExtIdle
    /\ health = ExtIdle
    /\ race = ExtIdle
    /\ signup_calls = ExtIdle

InitExtIdle ==
    /\ db = ExtIdle
    /\ api = ExtIdle
    /\ ui = ExtIdle
    /\ dash = ExtIdle
    /\ chat_call = ExtIdle
    /\ dag = ExtIdle
    /\ InitCallIdle

InitOrchIdle ==
    /\ embedding_manager = FALSE
    /\ graph = "None"
    /\ endpoint = "idle"
    /\ temp_dir = "none"
    /\ node = "idle"
    /\ state = EmptyState
    /\ trace = << >>
    /\ calls = << >>
    /\ node_error = ""
    /\ generated_summary = ""
    /\ response = NoResponse
    /\ requests = 0
    /\ wh_summary = [ n \in StartupNames |-> NoRow ]
    /\ wh_reports = [ i \in Industries |-> NoReport ]
    /\ wh_companies = [ i \in Industries |-> << >> ]

\* the API process after import: the embedding manager was constructed or
\* not; main.py compiles the graph at import, main_app.py starts with None;
\* the warehouse holds what earlier loads left there
Init ==
    /\ InitExtIdle
    /\ embedding_manager \in BOOLEAN
    /\ graph \in { "None", "compiled" }
    /\ endpoint = "idle"
    /\ temp_dir = "none"
    /\ node = "idle"
    /\ state = EmptyState
    /\ trace = << >>
    /\ calls = << >>
    /\ node_error = ""
    /\ generated_summary = ""
    /\ response = NoResponse
    /\ requests = 0
    /\ wh_summary \in { [ n \in StartupNames |-> IF n = "uber" THEN row ELSE NoRow ] :
                          row \in { NoRow, Row("travel"), Row("") } }
    /\ wh_reports \in { [ i \in Industries |-> IF i = "travel" THEN rep ELSE NoReport ] :
                          rep \in { NoReport,
                                    [ present |-> TRUE, Report_Summary |-> "travel report" ],
                                    [ present |-> TRUE, Report_Summary |-> "" ] } }
    /\ wh_companies \in { [ i \in Industries |-> IF i = "travel" THEN rows ELSE << >> ] :
                            rows \in { << >>, Companies } }
    /\ InitIndexIdle
    /\ pq = PqIdle
    /\ ck = CkIdle
    /\ gr = GrIdle

Next ==
    \/ \E n \in { "", "uber" }, i \in { "", "travel" }, ok \in BOOLEAN :
           BeginProcessPitchDeck(n, i, ok)
    \/ \E u \in CallOutcomes, sm \in CallOutcomes, f \in StoreFailPoints :
           ProcessPitchDeck(u, sm, f)
    \/ \E ok \in BOOLEAN : FetchSummary(ok)
    \/ \E ok \in BOOLEAN : FetchIndustryReport(ok)
    \/ \E ok \in BOOLEAN : FetchCompetitors(ok)
    \/ \E ok \in BOOLEAN : GenerateReport(ok)
    \/ \E ok \in BOOLEAN : StoreReport(ok)
    \/ \E sr \in { "hits", "none", "raise" }, ok \in BOOLEAN : FetchNews(sr, ok)
    \/ EndProcessPitchDeck
    \/ \E n \in StartupNames : BeginAnalyze(n)
    \/ EndAnalyze

Spec == Init /\ [][Next]_vars

\* the embedding manager and its endpoints on their own
InitIndexSpec ==
    /\ InitExtIdle
    /\ InitOrchIdle
    /\ InitIndex
    /\ pq = PqIdle
    /\ ck = CkIdle
    /\ gr = GrIdle

SpecIndex == InitIndexSpec /\ [][NextIndex]_vars

(***************************************************************************)
(* generate_report called on its own, on any state dict                    *)
(***************************************************************************)
GrSummaries ==
    { NoSummary,
      [ NoSummary EXCEPT !.error = "Startup not found." ],
      [ STARTUP_NAME |-> "uber", INDUSTRY |-> "travel",
        SHORT_DESCRIPTION |-> SummaryText, error |-> "" ],
      [ STARTUP_NAME |-> "uber", INDUSTRY |-> "",
        SHORT_DESCRIPTION |-> "stored description", error |-> "" ] }
GrReports ==
    { "", "travel report", "No report found.",
      "No industry report available - industry not specified" }
GrCompetitors == { << >>, SubSeq(Companies, 1, 1), Companies }

InitGr ==
    /\ InitExtIdle
    /\ InitOrchIdle
    /\ InitIndexIdle
    /\ pq = PqIdle
    /\ ck = CkIdle
    /\ gr \in { [ pc |-> "input",
                  s |-> [ EmptyState EXCEPT !.startup_name = "uber", !.summary = su,
                             !.industry_report = ir, !.competitors = co,
                             !.final_report = fr ],
                  final_report |-> fr, calls |-> << >>, raised |-> FALSE ] :
                su \in GrSummaries, ir \in GrReports, co \in GrCompetitors,
                fr \in { "", "earlier report" } }

CallGenerateReport(model_ok) ==
    /\ gr.pc = "input"
    /\ LET r == generate_report(gr.s, model_ok)
       IN gr' = [ gr EXCEPT !.pc = "done", !.final_report = r.ret.final_report,
                            !.calls = r.calls, !.raised = r.raised ]
    /\ UNCHANGED << orch_vars, index_vars, pq, ck, ext_vars >>

NextGr == \E ok \in BOOLEAN : CallGenerateReport(ok)

SpecGr == InitGr /\ [][NextGr]_vars

(***************************************************************************)
(* fetch_summary, fetch_industry_report and fetch_competitors called on    *)
(* their own, as tests/test_all.py and tests/unit_tests.py call them, on   *)
(* any state dict and any content of the warehouse                         *)
(***************************************************************************)
InitNd ==
    /\ db = ExtIdle /\ api = ExtIdle /\ ui = ExtIdle /\ dash = ExtIdle
    /\ chat_call = ExtIdle /\ dag = ExtIdle
    /\ scrape = ExtIdle /\ news_call = ExtIdle /\ health = ExtIdle
    /\ race = ExtIdle /\ signup_calls = ExtIdle
    /\ embedding_manager = FALSE /\ graph = "None" /\ endpoint = "idle"
    /\ temp_dir = "none" /\ node = "idle" /\ state = EmptyState
    /\ trace = << >> /\ calls = << >> /\ node_error = "" /\ generated_summary = ""
    /\ response = NoResponse /\ requests = 0
    /\ wh_summary \in { [ n \in StartupNames |-> IF n = "uber" THEN row ELSE NoRow ] :
                          row \in { NoRow, Row("travel"), Row("") } }
    /\ wh_reports \in { [ i \in Industries |-> IF i = "travel" THEN rep ELSE NoReport ] :
                          rep \in { NoReport,
                                    [ present |-> TRUE, Report_Summary |-> "travel report" ] } }
    /\ wh_companies \in { [ i \in Industries |->
                              IF i = "travel" THEN rows
                              ELSE IF i = "Unknown" THEN SubSeq(Companies, 2, 2)
                              ELSE << >> ] :
                            rows \in { << >>, Companies } }
    /\ InitIndexIdle
    /\ pq = PqIdle /\ ck = CkIdle /\ gr = GrIdle
    /\ nd \in { [ pc |-> "input", node |-> "",
                  s |-> [ EmptyState EXCEPT !.startup_name = n, !.industry = "Unknown",
                             !.summary = sm, !.industry_report = "earlier report",
                             !.competitors = SubSeq(Companies, 1, 1),
                             !.final_report = "earlier final report",
                             !.news = "earlier news" ],
                  ret |-> NodeInput(EmptyState), calls |-> << >>, raised |-> FALSE ] :
                n \in StartupNames,
                sm \in GrSummaries \cup { [ text |-> "plain text" ] } }

\* one direct call of a fetch node
CallNode(n, wh_ok) ==
    /\ nd.pc = "input"
    /\ LET r == CASE n = "fetch_summary" -> fetch_summary(nd.s, wh_ok)
                  [] n = "fetch_industry_report" -> fetch_industry_report(nd.s, wh_ok)
                  [] n = "fetch_competitors" -> fetch_competitors(nd.s, wh_ok)
       IN nd' = [ nd EXCEPT !.pc = "done", !.node = n, !.ret = r.ret,
                            !.calls = r.calls, !.raised = r.raised ]
    /\ UNCHANGED << orch_vars, index_vars, pq, ck, gr, db, api, ui, dash, chat_call, dag,
                    scrape, news_call, health, race, signup_calls >>

NextNd ==
    \E n \in { "fetch_summary", "fetch_industry_report", "fetch_competitors" },
       wh_ok \in BOOLEAN : CallNode(n, wh_ok)

SpecNd == InitNd /\ [][NextNd]_vars

(***************************************************************************)
(* GeminiAssistant.process_query_with_results                              *)
(***************************************************************************)
\* self.min_relevance_threshold = 0.3, in tenths
MinRelevanceThreshold == 3
\* the 5 of search_results[:min(5, len(search_results))]
TopCount == 5

MsgNoInformation == "I don't have any information about that in my database."
MsgNoSpecific == "I don't have specific information related to that query in my database."
MsgTrouble == "I'm having trouble processing your request."
MsgTroubleNow == "I'm having trouble processing your request right now."
AnswerText == "cleaned model answer"

\* a search result as far as its "score" goes: the key is missing, holds a
\* number (in tenths), or holds something that is not a number
ScoreValues ==
    { [ kind |-> "missing", score |-> 0 ], [ kind |-> "number", score |-> 2 ],
      [ kind |-> "number", score |-> 3 ], [ kind |-> "other", score |-> 0 ] }

\* the slice taken over the whole list
TopResults_All(search_results) == search_results

\* top_results = search_results[:min(5, len(search_results))]
TopResults(search_results) ==
    SubSeq(search_results, 1,
           IF Len(search_results) < TopCount THEN Len(search_results) ELSE TopCount)

\* result.get("score", 0)
GetScore(result) == IF result.kind = "missing" THEN 0 ELSE result.score

\* max([...]) of a non-empty list of numbers
MaxOf(top_results) ==
    CHOOSE m \in { GetScore(top_results[i]) : i \in 1..Len(top_results) } :
        \A i \in 1..Len(top_results) : GetScore(top_results[i]) <= m

\* model: "text", "empty" (a response without text), "raise"
process_query_with_results(search_results, model) ==
    IF search_results = << >>
    THEN [ answer |-> MsgNoInformation, model_calls |-> 0, raised |-> FALSE ]
    ELSE LET top_results == TopResults(search_results) IN
         IF \E i \in 1..Len(top_results) : top_results[i].kind = "other"
         THEN \* max() or the :.4f format raises TypeError, outside the try
              [ answer |-> "", model_calls |-> 0, raised |-> TRUE ]
         ELSE IF MaxOf(top_results) < MinRelevanceThreshold
         THEN [ answer |-> MsgNoSpecific, model_calls |-> 0, raised |-> FALSE ]
         ELSE IF model = "raise"
         THEN [ answer |-> MsgTroubleNow, model_calls |-> 1, raised |-> FALSE ]
         ELSE IF model = "empty"
         THEN [ answer |-> MsgTrouble, model_calls |-> 1, raised |-> FALSE ]
         ELSE [ answer |-> AnswerText, model_calls |-> 1, raised |-> FALSE ]

RECURSIVE SeqsUpTo(_, _)
SeqsUpTo(S, n) ==
    IF n = 0 THEN { << >> }
    ELSE LET shorter == SeqsUpTo(S, n - 1)
         IN shorter \cup { Append(q, x) : q \in shorter, x \in S }

InitPq ==
    /\ InitExtIdle
    /\ InitOrchIdle
    /\ InitIndexIdle
    /\ ck = CkIdle
    /\ gr = GrIdle
    /\ pq \in { [ pc |-> "input", search_results |-> r, answer |-> "",
                  model_calls |-> 0, raised |-> FALSE ] :
                r \in SeqsUpTo(ScoreValues, MaxResults) }

ProcessQueryWithResults(model) ==
    /\ pq.pc = "input"
    /\ LET r == process_query_with_results(pq.search_results, model)
       IN pq' = [ pq EXCEPT !.pc = "done", !.answer = r.answer,
                            !.model_calls = r.model_calls, !.raised = r.raised ]
    /\ UNCHANGED << orch_vars, index_vars, ck, gr, ext_vars >>

NextPq == \E m \in { "text", "empty", "raise" } : ProcessQueryWithResults(m)

SpecPq == InitPq /\ [][NextPq]_vars

(***************************************************************************)
(* EmbeddingManager.create_chunks_from_summary.  A line is a sequence of   *)
(* tokens: a header keyword, a plain word "w" or white space " ";          *)
(* `header in line` is the token occurring anywhere in the line.           *)
(***************************************************************************)
business_chunk_headers ==
    { "Problem", "Solution", "Product/Service", "Business Model", "Target Market",
      "Opportunity", "Traction", "Milestones", "Competition" }
team_chunk_headers ==
    { "Team", "Financials", "Funding Ask", "Use of Funds", "Investment",
      "Investor Synopsis" }

Tokens == { "Team", "Problem", "w", " " }

\* str.strip()
RECURSIVE Strip(_)
Strip(line) ==
    IF line = << >> THEN line
    ELSE IF Head(line) = " " THEN Strip(Tail(line))
    ELSE IF line[Len(line)] = " " THEN Strip(SubSeq(line, 1, Len(line) - 1))
    ELSE line

\* any(header in stripped_line for header in headers)
AnyIn(headers, stripped_line) ==
    \E i \in 1..Len(stripped_line) : stripped_line[i] \in headers

\* the loop over the lines from line i on; assign records, for each line,
\* the list it was appended to ("blank": skipped by `continue`, "none":
\* appended to neither)
RECURSIVE ChunkLoop(_, _, _, _, _, _)
ChunkLoop(lines, i, current_chunk, business_content, team_content, assign) ==
    IF i > Len(lines)
    THEN [ business_content |-> business_content, team_content |-> team_content,
           assign |-> assign ]
    ELSE LET stripped_line == Strip(lines[i]) IN
         IF stripped_line = << >>
         THEN ChunkLoop(lines, i + 1, current_chunk, business_content, team_content,
                        Append(assign, "blank"))
         ELSE LET is_section_header ==
                      AnyIn(business_chunk_headers \cup team_chunk_headers, stripped_line)
                  chunk == IF is_section_header
                           THEN IF AnyIn(business_chunk_headers, stripped_line)
                                THEN "business"
                                ELSE IF AnyIn(team_chunk_headers, stripped_line)
                                THEN "team"
                                ELSE current_chunk
                           ELSE current_chunk
              IN IF chunk = "business"
                 THEN ChunkLoop(lines, i + 1, chunk, Append(business_content, stripped_line),
                                team_content, Append(assign, "business"))
                 ELSE IF chunk = "team"
                 THEN ChunkLoop(lines, i + 1, chunk, business_content,
                                Append(team_content, stripped_line), Append(assign, "team"))
                 ELSE ChunkLoop(lines, i + 1, chunk, business_content, team_content,
                                Append(assign, "none"))

NoBusiness == << << "No business overview information found." >> >>
NoTeam == << << "No team or investment information found." >> >>

\* the two chunks, each content kept as its list of lines
create_chunks_from_summary(lines) ==
    LET r == ChunkLoop(lines, 1, "None", << >>, << >>, << >>)
    IN [ chunks |-> << [ type |-> ChunkTypes[1],
                         content |-> IF r.business_content # << >>
                                     THEN r.business_content ELSE NoBusiness ],
                       [ type |-> ChunkTypes[2],
                         content |-> IF r.team_content # << >>
                                     THEN r.team_content ELSE NoTeam ] >>,
         assign |-> r.assign ]

InitCk ==
    /\ InitExtIdle
    /\ InitOrchIdle
    /\ InitIndexIdle
    /\ pq = PqIdle
    /\ gr = GrIdle
    /\ ck \in { [ pc |-> "input", lines |-> ls, chunks |-> << >>, assign |-> << >> ] :
                ls \in SeqsUpTo(SeqsUpTo(Tokens, MaxTokens), MaxLines) }

CreateChunksFromSummary ==
    /\ ck.pc = "input"
    /\ LET r == create_chunks_from_summary(ck.lines)
       IN ck' = [ ck EXCEPT !.pc = "done", !.chunks = r.chunks, !.assign = r.assign ]
    /\ UNCHANGED << orch_vars, index_vars, pq, gr, ext_vars >>

NextCk == CreateChunksFromSummary

SpecCk == InitCk /\ [][NextCk]_vars

(***************************************************************************)
(* backend/database: the warehouse tables investor, startup and            *)
(* startup_investor_map, the auth table InvestorLogin, and the endpoints   *)
(* of main_app.py over them.  investor_id and startup_id are positions in  *)
(* the tables.  A call's fail is "none", "connect" (account_login or       *)
(* get_context raises, before the try) or "execute" (a statement raises).  *)
(***************************************************************************)
People ==
    { [ username |-> "alice", email |-> "a@x" ], [ username |-> "bob", email |-> "b@x" ],
      [ username |-> "alice", email |-> "c@x" ] }

NoApi ==
    [ n |-> 0, op |-> "none", ep |-> "", name |-> "", names |-> << >>, fail |-> "none",
      status_code |-> 0, pre |-> 0, hit |-> FALSE ]

\* SELECT investor_id ... WHERE LOWER(username) = LOWER(%s); fetchone(): 0 for no row
Resolve(d, username) ==
    LET ids == { j \in 1..Len(d.investor) : Lower(d.investor[j].username) = Lower(username) }
    IN IF ids = { } THEN 0 ELSE CHOOSE j \in ids : \A k \in ids : j <= k

\* the for loop of map_startup_to_investors from username i on
RECURSIVE MapLoop(_, _, _, _, _)
MapLoop(d, startup_id, investor_usernames, i, map) ==
    IF i > Len(investor_usernames) THEN map
    ELSE LET investor_id == Resolve(d, investor_usernames[i]) IN
         IF investor_id = 0
         THEN MapLoop(d, startup_id, investor_usernames, i + 1, map)
         ELSE MapLoop(d, startup_id, investor_usernames, i + 1,
                      Append(map, [ startup_id |-> startup_id, investor_id |-> investor_id,
                                    status |-> "Not Viewed", invested_amount |-> None ]))

\* an unknown username raising like an unknown startup does
map_startup_to_investors_AbortOnUnknown(d, startup_name, investor_usernames, fail) ==
    LET ids == { j \in 1..Len(d.startup) : Lower(d.startup[j]) = Lower(startup_name) } IN
    IF fail # "none" \/ ids = { }
          \/ \E i \in 1..Len(investor_usernames) : Resolve(d, investor_usernames[i]) = 0
    THEN d
    ELSE [ d EXCEPT !.map = MapLoop(d, CHOOSE j \in ids : \A k \in ids : j <= k,
                                    investor_usernames, 1, d.map) ]

\* the table contents after the call; the function returns None whatever happened
map_startup_to_investors(d, startup_name, investor_usernames, fail) ==
    LET ids == { j \in 1..Len(d.startup) : Lower(d.startup[j]) = Lower(startup_name) } IN
    IF fail # "none" \/ ids = { }
    THEN d      \* raised before the try, or ValueError/execute error and conn.rollback()
    ELSE [ d EXCEPT !.map = MapLoop(d, CHOOSE j \in ids : \A k \in ids : j <= k,
                                    investor_usernames, 1, d.map) ]

\* [db, raised]: only a failure before the try reaches the caller
insert_investor(d, p, fail) ==
    IF fail = "connect" THEN [ db |-> d, raised |-> TRUE ]
    ELSE IF fail = "execute" THEN [ db |-> d, raised |-> FALSE ]
    ELSE [ db |-> [ d EXCEPT !.investor = Append(@, p) ], raised |-> FALSE ]

\* the functions db_utils.py defines; get_investor_info and
\* get_startup_column_by_id, which main_app.py calls, are not among them
DbUtils == { "get_investor_by_username", "get_startups_by_status", "get_startup_info_by_id" }

LookupFunction ==
    [ fetch_investor_info |-> "get_investor_info",
      fetch_investor_by_username |-> "get_investor_by_username",
      fetch_startup_info |-> "get_startup_info_by_id",
      get_startup_column |-> "get_startup_column_by_id" ]

\* what the db_utils call of a lookup endpoint does: "row", "None", or the
\* exception raised.  dict(zip(..., row)) raises TypeError for row None.  A
\* function db_utils.py lacks raises AttributeError; with `provided` it is
\* taken to exist and to return None for an absent row.
db_utils_call(ep, found, provided, column_ok, fail) ==
    IF LookupFunction[ep] \notin DbUtils
    THEN IF ~provided THEN "AttributeError"
         ELSE IF ~column_ok THEN "ValueError"
         ELSE IF fail # "none" THEN "Exception"
         ELSE IF found THEN "row" ELSE "None"
    ELSE IF fail # "none" THEN "Exception"
    ELSE IF found THEN "row" ELSE "TypeError"

\* the try/except of the four lookup handlers: status code for the outcome r
LookupStatus(ep, r) ==
    IF r = "row" THEN 200
    ELSE IF r = "None"
    THEN \* raise HTTPException(404) inside the try
         IF ep \in { "fetch_startup_info", "fetch_investor_by_username" }
         THEN 404       \* except HTTPException: raise
         ELSE 500       \* caught by except Exception
    ELSE IF r = "ValueError" /\ ep = "get_startup_column" THEN 400
    ELSE 500

InitDb ==
    /\ InitOrchIdle
    /\ InitIndexIdle
    /\ pq = PqIdle /\ ck = CkIdle /\ gr = GrIdle
    /\ dash = ExtIdle /\ chat_call = ExtIdle /\ dag = ExtIdle
    /\ InitCallIdle
    /\ \E investor \in { << >>, << [ username |-> "alice", email |-> "a@x" ] >> },
          startup \in { << >>, << "uber" >> } :
          db = [ investor |-> investor, startup |-> startup, map |-> << >>,
                 auth |-> investor ]
    /\ api = NoApi
    /\ ui = [ is_logged_in |-> FALSE, username |-> "", page |-> "home",
              rendered |-> "home" ]

MapStartupToInvestors(startup_name, investor_usernames, fail) ==
    /\ api.n < MaxApiOps
    /\ db' = map_startup_to_investors(db, startup_name, investor_usernames, fail)
    /\ api' = [ NoApi EXCEPT !.n = api.n + 1, !.op = "map", !.name = startup_name,
                             !.names = investor_usernames, !.fail = fail,
                             !.pre = Len(db.map),
                             !.hit = \E j \in 1..Len(db.startup) :
                                        Lower(db.startup[j]) = Lower(startup_name) ]
    /\ UNCHANGED << orch_vars, index_vars, pq, ck, gr, ui, dash, chat_call, dag,
                    call_vars >>

\* /add-investor-info
AddInvestor(p, fail) ==
    /\ api.n < MaxApiOps
    /\ LET r == insert_investor(db, p, fail) IN
       /\ db' = r.db
       /\ api' = [ NoApi EXCEPT !.n = api.n + 1, !.op = "add_investor",
                                !.name = p.username, !.fail = fail,
                                !.status_code = IF r.raised THEN 500 ELSE 200,
                                !.pre = Len(db.investor),
                                !.hit = \E j \in 1..Len(db.investor) :
                                           \/ db.investor[j].username = p.username
                                           \/ db.investor[j].email = p.email ]
    /\ UNCHANGED << orch_vars, index_vars, pq, ck, gr, ui, dash, chat_call, dag,
                    call_vars >>

\* /fetch-investor-info, /fetch-investor-by-username (key: a username),
\* /fetch-startup-info, /get-startup-column (key: a startup_name standing
\* for its startup_id)
Lookup(ep, key, provided, column_ok, fail) ==
    /\ api.n < MaxApiOps
    /\ LET found == IF ep \in { "fetch_investor_info", "fetch_investor_by_username" }
                    THEN \E j \in 1..Len(db.investor) : db.investor[j].username = key
                    ELSE \E j \in 1..Len(db.startup) : db.startup[j] = key
       IN api' = [ NoApi EXCEPT !.n = api.n + 1, !.op = "lookup", !.ep = ep, !.name = key,
                                !.fail = IF column_ok THEN fail ELSE "column",
                                !.status_code =
                                    LookupStatus(ep, db_utils_call(ep, found, provided,
                                                                   column_ok, fail)),
                                !.hit = found ]
    /\ UNCHANGED << orch_vars, index_vars, pq, ck, gr, db, ui, dash, chat_call, dag,
                    call_vars >>

\* the auth call behind /investor-signup-auth and /investor-login-auth.
\* main_app.py imports it as database.investor_auth and passes signup five
\* arguments; module "investor_login" is investor_login.py as it stands (its
\* signup takes four: TypeError), module "investor_auth" takes the username
\* too and returns it on login.  [auth, status]: "success", "error", "raise".
signup_investor(auth, p, module, fail) ==
    IF module = "investor_login" \/ fail # "none" THEN [ auth |-> auth, status |-> "raise" ]
    ELSE IF \E i \in 1..Len(auth) : auth[i].email = p.email
    THEN [ auth |-> auth, status |-> "error" ]      \* "Email already registered."
    ELSE [ auth |-> Append(auth, p), status |-> "success" ]

\* the result envelope of a login; username is the value of its "username"
\* key, "" when the envelope has no such key
login_investor(auth, identifier, password_ok, module, fail) ==
    LET user == { i \in 1..Len(auth) :
                    IF module = "investor_login" THEN auth[i].email = identifier
                    ELSE auth[i].username = identifier }
    IN IF fail # "none" THEN [ status |-> "raise", username |-> "" ]
       ELSE IF user = { } \/ ~password_ok THEN [ status |-> "error", username |-> "" ]
       ELSE [ status |-> "success",
              username |-> IF module = "investor_login" THEN "" ELSE identifier ]

\* render() of investor_dashboard.py up to the header: the session after it
RenderSession(d, session) ==
    IF ~session.is_logged_in
    THEN [ session EXCEPT !.page = "home", !.rendered = "home" ]
    ELSE IF LookupStatus("fetch_investor_by_username",
                         db_utils_call("fetch_investor_by_username",
                                       \E j \in 1..Len(d.investor) :
                                           d.investor[j].username = session.username,
                                       TRUE, TRUE, "none")) = 200
    THEN [ session EXCEPT !.rendered = "dashboard" ]
    ELSE [ session EXCEPT !.rendered = "error" ]

\* the "Sign Up" button of home.py with all fields filled
SignUp(p, module, fail, fail2) ==
    /\ api.n < MaxApiOps
    /\ LET r == signup_investor(db.auth, p, module, fail)
           r2 == insert_investor([ db EXCEPT !.auth = r.auth ], p, fail2)
       IN /\ db' = IF r.status = "success" THEN r2.db ELSE db
          /\ api' = [ NoApi EXCEPT !.n = api.n + 1, !.op = "signup", !.name = p.username,
                                   !.fail = IF r.status = "success" THEN fail2 ELSE fail,
                                   !.status_code = IF r.status = "raise" THEN 500 ELSE 200,
                                   !.pre = Len(db.auth),
                                   !.hit = r.status = "success" ]
    /\ UNCHANGED << orch_vars, index_vars, pq, ck, gr, ui, dash, chat_call, dag,
                    call_vars >>

\* the "Login" button of home.py with both fields filled, and the rerun on
\* the dashboard page that follows a success
Login(identifier, password_ok, module, fail) ==
    /\ api.n < MaxApiOps
    /\ LET r == login_investor(db.auth, identifier, password_ok, module, fail)
       IN /\ ui' = IF r.status = "success"
                   THEN RenderSession(db, [ ui EXCEPT !.is_logged_in = TRUE,
                                                      !.username = r.username,
                                                      !.page = "investor_dashboard" ])
                   ELSE ui
          /\ api' = [ NoApi EXCEPT !.n = api.n + 1, !.op = "login", !.name = identifier,
                                   !.fail = fail,
                                   !.status_code = IF r.status = "raise" THEN 500 ELSE 200,
                                   !.hit = r.status = "success" ]
    /\ UNCHANGED << orch_vars, index_vars, pq, ck, gr, db, dash, chat_call, dag,
                    call_vars >>

\* the "Logout" button of the dashboard header
Logout ==
    /\ api.n < MaxApiOps
    /\ ui.rendered = "dashboard"
    /\ ui' = [ ui EXCEPT !.page = "home", !.is_logged_in = FALSE, !.rendered = "home" ]
    /\ api' = [ NoApi EXCEPT !.n = api.n + 1, !.op = "logout" ]
    /\ UNCHANGED << orch_vars, index_vars, pq, ck, gr, db, dash, chat_call, dag,
                    call_vars >>

\* the dashboard page is run for the session as it is
RenderDashboard ==
    /\ api.n < MaxApiOps
    /\ ui' = RenderSession(db, [ ui EXCEPT !.page = "investor_dashboard" ])
    /\ api' = [ NoApi EXCEPT !.n = api.n + 1, !.op = "render" ]
    /\ UNCHANGED << orch_vars, index_vars, pq, ck, gr, db, dash, chat_call, dag,
                    call_vars >>

NextDb ==
    \/ \E name \in { "uber", "Uber", "lyft" },
          names \in SeqsUpTo({ "alice", "Alice", "zed" }, MaxNames),
          fail \in { "none", "connect", "execute" } :
           MapStartupToInvestors(name, names, fail)
    \/ \E p \in People, fail \in { "none", "connect", "execute" } : AddInvestor(p, fail)
    \/ \E ep \in DOMAIN LookupFunction, key \in { "alice", "zed", "uber" },
          provided \in BOOLEAN, column_ok \in BOOLEAN, fail \in { "none", "connect" } :
           Lookup(ep, key, provided, column_ok, fail)
    \/ \E p \in People, module \in { "investor_login", "investor_auth" },
          fail \in { "none", "connect" }, fail2 \in { "none", "connect", "execute" } :
           SignUp(p, module, fail, fail2)
    \/ \E identifier \in { "alice", "a@x", "zed" }, password_ok \in BOOLEAN,
          module \in { "investor_login", "investor_auth" }, fail \in { "none", "connect" } :
           Login(identifier, password_ok, module, fail)
    \/ Logout
    \/ RenderDashboard

SpecDb == InitDb /\ [][NextDb]_vars

(***************************************************************************)
(* /chat of main_app.py.  The query is a sequence of tokens, " " being     *)
(* white space; search is the outcome of the vector search: raised, or    *)
(* its list of hits.                                                       *)
(***************************************************************************)
MsgGuidance == "Please enter a question about startups in our database."
MsgApology == "I'm having trouble processing your request right now. Please try again with a different question."

\* the handler from its `if not query` test on, q being the stripped query:
\* the response payload (error "" when it has no "error" key) and the calls made
ChatStripped(q, search, model) ==
    LET payload == [ status_code |-> 200, response |-> MsgNoInformation,
                     results_count |-> 0, error |-> "", searched |-> FALSE,
                     assistant |-> FALSE, model_calls |-> 0 ]
    IN IF q = << >> THEN [ payload EXCEPT !.response = MsgGuidance ]
       ELSE IF Len(q) = 1 /\ Lower(q[1]) \in { "test empty database", "test no results" }
       THEN payload
       ELSE IF search.raised
       THEN [ payload EXCEPT !.response = MsgApology, !.error = "str(e)", !.searched = TRUE ]
       ELSE IF search.hits = << >> THEN [ payload EXCEPT !.searched = TRUE ]
       ELSE LET r == process_query_with_results(search.hits, model) IN
            IF r.raised
            THEN [ payload EXCEPT !.response = MsgApology, !.error = "str(e)",
                                  !.searched = TRUE, !.assistant = TRUE ]
            ELSE [ payload EXCEPT !.response = r.answer, !.results_count = Len(search.hits),
                                  !.searched = TRUE, !.assistant = TRUE,
                                  !.model_calls = r.model_calls ]

\* the handler answering 500 for an exception
chat_ErrorStatus(query, search, model) ==
    LET payload == ChatStripped(Strip(query), search, model)
    IN [ payload EXCEPT !.status_code = IF payload.error # "" THEN 500 ELSE 200 ]

\* the handler testing the query as received
chat_NoStrip(query, search, model) == ChatStripped(query, search, model)

\* query = request.query.strip() and the rest of the handler
chat(query, search, model) == ChatStripped(Strip(query), search, model)

InitChat ==
    /\ InitOrchIdle
    /\ InitIndexIdle
    /\ pq = PqIdle /\ ck = CkIdle /\ gr = GrIdle
    /\ db = ExtIdle /\ api = ExtIdle /\ ui = ExtIdle /\ dash = ExtIdle /\ dag = ExtIdle
    /\ InitCallIdle
    /\ chat_call \in { [ pc |-> "request", query |-> q,
                         search |-> [ raised |-> FALSE, hits |-> << >> ],
                         payload |-> ChatStripped(<< >>, [ raised |-> FALSE, hits |-> << >> ],
                                                  "text") ] :
                       q \in SeqsUpTo({ " ", "q", "Test No Results" }, 2) }

Chat(search, model) ==
    /\ chat_call.pc = "request"
    /\ chat_call' = [ chat_call EXCEPT !.pc = "done", !.search = search,
                                       !.payload = chat(chat_call.query, search, model) ]
    /\ UNCHANGED << orch_vars, index_vars, pq, ck, gr, db, api, ui, dash, dag,
                    call_vars >>

NextChat ==
    \E search \in { [ raised |-> TRUE, hits |-> << >> ] }
                     \cup { [ raised |-> FALSE, hits |-> h ] :
                            h \in SeqsUpTo(ScoreValues, MaxHits) },
       model \in { "text", "empty", "raise" } : Chat(search, model)

SpecChat == InitChat /\ [][NextChat]_vars

(***************************************************************************)
(* frontend/views/investor_dashboard.py: the sidebar and the main panel of *)
(* a logged-in investor.  A script run handles one widget event: "none",   *)
(* "stage" (the other stage is picked), "select" (the other startup is     *)
(* picked), "ask", "send", "clear", "return".  lists[stage] is the number  *)
(* of startups /fetch-startups-by-status returns; a startup's id is its    *)
(* position in the list; selected_startup_id 0 is None.                    *)
(***************************************************************************)
\* [session, rerun]: the session after the sidebar, and whether it called st.rerun()
dashboard_sidebar(session, event) ==
    LET stage == IF event = "stage" THEN (IF session.stage = "New" THEN "Funded" ELSE "New")
                 ELSE session.stage
        choice == IF event = "stage" THEN 1
                  ELSE IF event = "select" THEN 3 - session.choice
                  ELSE session.choice
        listed == [ session EXCEPT !.stage = stage, !.choice = choice ]
        picked == IF session.lists[stage] = 0
                  THEN [ listed EXCEPT !.selected_startup_id = 0 ]
                  ELSE \* selected_name is the selectbox's value: never empty
                       [ listed EXCEPT !.show_chat = FALSE, !.selected_startup_id = choice ]
    IN IF event = "ask"
       THEN [ session |-> [ picked EXCEPT !.show_chat = TRUE, !.selected_startup_id = 0 ],
              rerun |-> TRUE ]
       ELSE [ session |-> picked, rerun |-> FALSE ]

\* [session, panel, rerun]: what the main panel rendered in this run
dashboard_main(session, event, info_ok) ==
    IF session.show_chat
    THEN IF event = "send"
         THEN [ session |-> [ session EXCEPT !.chat_history = @ + 2 ],
                panel |-> { "chat" }, rerun |-> TRUE ]
         ELSE IF event = "clear"
         THEN [ session |-> [ session EXCEPT !.chat_history = 0 ],
                panel |-> { "chat" }, rerun |-> TRUE ]
         ELSE IF event = "return"
         THEN [ session |-> [ session EXCEPT !.show_chat = FALSE ],
                panel |-> { "chat" }, rerun |-> TRUE ]
         ELSE [ session |-> session, panel |-> { "chat" }, rerun |-> FALSE ]
    ELSE [ session |-> session,
           panel |-> IF session.selected_startup_id = 0 THEN { "info" }
                     ELSE IF info_ok THEN { "tabs" } ELSE { "error" },
           rerun |-> FALSE ]

\* one run of the dashboard script, from the sidebar on
ScriptRun(session, event, info_ok) ==
    LET sb == dashboard_sidebar(session, event)
    IN IF sb.rerun THEN [ session |-> sb.session, panel |-> { }, rerun |-> TRUE ]
       ELSE dashboard_main(sb.session, event, info_ok)

InitDash ==
    /\ InitOrchIdle
    /\ InitIndexIdle
    /\ pq = PqIdle /\ ck = CkIdle /\ gr = GrIdle
    /\ db = ExtIdle /\ api = ExtIdle /\ ui = ExtIdle /\ chat_call = ExtIdle /\ dag = ExtIdle
    /\ InitCallIdle
    /\ \E new \in 0..2, funded \in 0..2, info_ok \in BOOLEAN :
          LET session == [ show_chat |-> FALSE, selected_startup_id |-> 0, chat_history |-> 0,
                           stage |-> "New", choice |-> 1,
                           lists |-> [ New |-> new, Funded |-> funded ] ]
              first == ScriptRun(session, "none", info_ok)
          IN dash = [ session |-> first.session, panel |-> first.panel, runs |-> 0,
                      event |-> "none", chat_mode |-> FALSE ]

\* a widget event and the script runs it causes: the run handling the event
\* and, after st.rerun(), the run that follows
DashboardEvent(event, info_ok) ==
    /\ dash.runs < MaxRuns
    /\ event \in { "send", "clear", "return" } => "chat" \in dash.panel
    /\ event = "select" => dash.session.lists[dash.session.stage] = 2
    /\ LET run == ScriptRun(dash.session, event, info_ok)
           last == IF run.rerun THEN ScriptRun(run.session, "none", info_ok) ELSE run
       IN dash' = [ session |-> last.session, panel |-> last.panel, runs |-> dash.runs + 1,
                    event |-> event,
                    chat_mode |-> IF event = "ask" THEN TRUE
                                  ELSE IF event \in { "return", "select", "stage" } THEN FALSE
                                  ELSE dash.chat_mode ]
    /\ UNCHANGED << orch_vars, index_vars, pq, ck, gr, db, api, ui, chat_call, dag,
                    call_vars >>

NextDash ==
    \E event \in { "none", "stage", "select", "ask", "send", "clear", "return" },
       info_ok \in BOOLEAN : DashboardEvent(event, info_ok)

SpecDash == InitDash /\ [][NextDash]_vars

(***************************************************************************)
(* Airflow/dags/market_research_dag.py: one run of the DAG                 *)
(* industry_reports_pipeline.  A task is "none" (not run yet, or up for    *)
(* retry), "success", "skipped", "failed" or "upstream_failed"; no task    *)
(* sets a trigger rule, so each runs under all_success.  The two           *)
(* extraction tasks are created inside TaskGroup extract_reports, which    *)
(* prefixes their task ids with the group id.                              *)
(***************************************************************************)
\* default_args['retries']
Retries == 2

DirectPdfs == { "d1", "d2" }
PrintUrls == { "h1" }

Tasks ==
    { "initialize_snowflake", "extract_reports.process_direct_pdfs",
      "extract_reports.process_html_reports", "generate_summaries", "store_in_s3",
      "store_in_snowflake", "store_in_pinecone" }

\* the task dependencies
Upstream(task) ==
    CASE task = "generate_summaries" ->
             { "extract_reports.process_direct_pdfs", "extract_reports.process_html_reports" }
      [] task = "store_in_s3" -> { "generate_summaries" }
      [] task = "store_in_snowflake" -> { "initialize_snowflake", "store_in_s3" }
      [] task = "store_in_pinecone" -> { "store_in_snowflake" }
      [] OTHER -> { }

\* ti.xcom_pull(task_ids=...): the return value pushed by the task with that
\* id; None, falsy like the empty list, when no task of the run has the id
\* or the task returned nothing
xcom_pull(task_ids, out) ==
    IF task_ids \in Tasks THEN out[task_ids] ELSE { }

\* the reports a task's callable loops over: its configured sources, or what
\* it pulls from XCom under the ids written in its code
Handed(task, out) ==
    CASE task = "extract_reports.process_direct_pdfs" -> DirectPdfs
      [] task = "extract_reports.process_html_reports" -> PrintUrls
      [] task = "generate_summaries" ->
             xcom_pull("process_direct_pdfs", out) \cup xcom_pull("process_html_reports", out)
      [] task = "store_in_s3" -> xcom_pull("generate_summaries", out)
      [] task = "store_in_snowflake" -> xcom_pull("store_in_s3", out)
      [] task = "store_in_pinecone" -> xcom_pull("store_in_snowflake", out)
      [] OTHER -> { }

\* one failing report emptying the batch
Callable_AllOrNothing(task, handed, ok_items) ==
    IF task = "store_in_pinecone" \/ ~(handed \subseteq ok_items) THEN { } ELSE handed

\* the reports a callable's try/except loop succeeds for, ok_items being
\* those its external call succeeds for.  In store_in_pinecone the name
\* store_in_pinecone is the task function itself (the def at line 278
\* rebinds the imported helper): the call with a positional argument raises
\* TypeError for every report, inside the per-report try.
Callable(task, handed, ok_items) ==
    IF task = "store_in_pinecone" THEN { } ELSE handed \cap ok_items

InitDag ==
    /\ InitOrchIdle
    /\ InitIndexIdle
    /\ pq = PqIdle /\ ck = CkIdle /\ gr = GrIdle
    /\ db = ExtIdle /\ api = ExtIdle /\ ui = ExtIdle /\ dash = ExtIdle
    /\ chat_call = ExtIdle
    /\ InitCallIdle
    /\ dag = [ state |-> [ t \in Tasks |-> "none" ], out |-> [ t \in Tasks |-> { } ],
               handed |-> [ t \in Tasks |-> { } ], ok |-> [ t \in Tasks |-> { } ],
               tries |-> [ t \in Tasks |-> 0 ] ]

\* the scheduler settles a task whose upstream tasks are done, running its
\* callable when all of them succeeded
RunTask(task, ok_items, raises) ==
    /\ dag.state[task] = "none"
    /\ \A u \in Upstream(task) : dag.state[u] # "none"
    /\ IF \E u \in Upstream(task) : dag.state[u] \in { "failed", "upstream_failed" }
       THEN dag' = [ dag EXCEPT !.state[task] = "upstream_failed" ]
       ELSE IF \E u \in Upstream(task) : dag.state[u] = "skipped"
       THEN dag' = [ dag EXCEPT !.state[task] = "skipped" ]
       ELSE IF task = "initialize_snowflake"
       THEN dag' = [ dag EXCEPT !.tries[task] = @ + 1,
                                !.state[task] = IF ~raises THEN "success"
                                                ELSE IF dag.tries[task] < Retries THEN "none"
                                                ELSE "failed" ]
       ELSE LET handed == Handed(task, dag.out)
                done == Callable(task, handed, ok_items)
            IN dag' = [ dag EXCEPT !.tries[task] = @ + 1, !.handed[task] = handed,
                                   !.ok[task] = ok_items, !.out[task] = done,
                                   !.state[task] = IF done = { } THEN "skipped"
                                                   ELSE "success" ]
    /\ UNCHANGED << orch_vars, index_vars, pq, ck, gr, db, api, ui, dash, chat_call,
                    call_vars >>

NextDag ==
    \E task \in Tasks, ok_items \in SUBSET (DirectPdfs \cup PrintUrls), raises \in BOOLEAN :
        RunTask(task, ok_items, raises)

SpecDag == InitDag /\ [][NextDag]_vars

(***************************************************************************)
(* GET /health of backend/main.py and of backend/pinecone_pipeline/main.py *)
(***************************************************************************)
\* the variables the process needs; pinecone_pipeline/main.py reads these at
\* import, the list validate_environment checks is in summary.py
RequiredVars == { "AWS_ACCESS_KEY_ID", "AWS_SECRET_ACCESS_KEY", "AWS_S3_BUCKET_NAME" }

\* summary.validate_environment: (is_valid, missing_vars) for the variables
\* set in the environment
validate_environment(env) ==
    [ is_valid |-> RequiredVars \subseteq env, missing_vars |-> RequiredVars \ env ]

\* the answer of health_check in module app; named: the variables its message
\* lists; em, ga: the module's embedding_manager / gemini_assistant is set
health_check(app, env, em, ga) ==
    IF app = "main"
    THEN [ status |-> "ok", named |-> { }, embedding_status |-> None,
           gemini_status |-> None ]
    ELSE LET v == validate_environment(env)
             embedding_status == IF em THEN "active" ELSE "disabled"
             gemini_status == IF ga THEN "active" ELSE "disabled"
         IN IF ~v.is_valid
            THEN [ status |-> "warning", named |-> v.missing_vars,
                   embedding_status |-> embedding_status, gemini_status |-> gemini_status ]
            ELSE [ status |-> "ok", named |-> { },
                   embedding_status |-> embedding_status, gemini_status |-> gemini_status ]

InitHealth ==
    /\ InitOrchIdle
    /\ InitIndexIdle
    /\ pq = PqIdle /\ ck = CkIdle /\ gr = GrIdle
    /\ db = ExtIdle /\ api = ExtIdle /\ ui = ExtIdle /\ dash = ExtIdle
    /\ chat_call = ExtIdle /\ dag = ExtIdle
    /\ nd = ExtIdle /\ scrape = ExtIdle /\ news_call = ExtIdle
    /\ race = ExtIdle /\ signup_calls = ExtIdle
    /\ health \in { [ pc |-> "idle", app |-> a, env |-> e, em |-> em, ga |-> ga,
                      answered |-> 0,
                      answer |-> [ status |-> "", named |-> { }, embedding_status |-> None,
                                   gemini_status |-> None ] ] :
                    a \in { "main", "pinecone_pipeline.main" }, e \in SUBSET RequiredVars,
                    em \in BOOLEAN, ga \in BOOLEAN }

HealthCheck ==
    /\ health.pc = "idle"
    /\ health.answered < MaxRequests
    /\ health' = [ health EXCEPT
                     !.answered = @ + 1,
                     !.answer = health_check(health.app, health.env, health.em, health.ga) ]
    /\ UNCHANGED << orch_vars, index_vars, pq, ck, gr, db, api, ui, dash, chat_call, dag,
                    nd, scrape, news_call, race, signup_calls >>

NextHealth == HealthCheck

SpecHealth == InitHealth /\ [][NextHealth]_vars

(***************************************************************************)
(* pinecone_pipeline/mcp_google_search_agent.py google_search_with_fallback *)
(* (agent "mcp") and pinecone_pipeline/websearchAgent.py                   *)
(* search_with_fallback (agent "tavily").  Texts are sequences of          *)
(* characters.                                                             *)
(***************************************************************************)
\* results a search can return: the text of a result is in "snippet" (mcp)
\* resp. "content" (tavily)
NewsItems ==
    { [ title |-> << "U", "B" >>, snippet |-> << "x" >> ],
      [ title |-> << "x", "u" >>, snippet |-> << "b" >> ],
      [ title |-> << "x" >>, snippet |-> << "u" >> ] }

\* the relevance test comparing the texts as they are
is_relevant_NoLower(agent, results, startup_name) ==
    LET Contains(sub, text) ==
            \E i \in 0..(Len(text) - Len(sub)) : SubSeq(text, i + 1, i + Len(sub)) = sub
        Text(r) == IF agent = "mcp" THEN r.title \o r.snippet
                   ELSE r.title \o << " " >> \o r.snippet
    IN \E k \in 1..Len(results) : Contains(startup_name, Text(results[k]))

\* mcp: any(startup_name.lower() in (item["title"] + item["snippet"]).lower());
\* tavily: is_relevant, on r["title"] + " " + r["content"]
is_relevant(agent, results, startup_name) ==
    LET LowerChars(t) == [ i \in 1..Len(t) |-> Lower(t[i]) ]
        Contains(sub, text) ==
            \E i \in 0..(Len(text) - Len(sub)) : SubSeq(text, i + 1, i + Len(sub)) = sub
        Text(r) == IF agent = "mcp" THEN r.title \o r.snippet
                   ELSE r.title \o << " " >> \o r.snippet
    IN \E k \in 1..Len(results) :
           Contains(LowerChars(startup_name), LowerChars(Text(results[k])))

\* first, second: what the startup query and the industry query return;
\* fail: the search (1 or 2) that raises, 0 for none
search_with_fallback(agent, startup_name, first, second, fail) ==
    IF fail = 1
    THEN [ raised |-> TRUE, queries |-> << "startup" >>, results |-> << >>,
           search_type |-> "" ]
    ELSE IF is_relevant(agent, first, startup_name)
    THEN [ raised |-> FALSE, queries |-> << "startup" >>, results |-> first,
           search_type |-> "Startup-Specific" ]
    ELSE IF fail = 2
    THEN [ raised |-> TRUE, queries |-> << "startup", "industry" >>, results |-> << >>,
           search_type |-> "" ]
    ELSE [ raised |-> FALSE, queries |-> << "startup", "industry" >>, results |-> second,
           search_type |-> "Industry-Based" ]

InitNews ==
    /\ InitOrchIdle
    /\ InitIndexIdle
    /\ pq = PqIdle /\ ck = CkIdle /\ gr = GrIdle
    /\ db = ExtIdle /\ api = ExtIdle /\ ui = ExtIdle /\ dash = ExtIdle
    /\ chat_call = ExtIdle /\ dag = ExtIdle
    /\ nd = ExtIdle /\ scrape = ExtIdle /\ health = ExtIdle
    /\ race = ExtIdle /\ signup_calls = ExtIdle
    /\ news_call \in { [ pc |-> "input", agent |-> a, startup_name |-> n, first |-> f,
                         second |-> sd,
                         ret |-> [ raised |-> FALSE, queries |-> << >>, results |-> << >>,
                                   search_type |-> "" ] ] :
                       a \in { "mcp", "tavily" },
                       n \in { << "u", "b" >>, << "U", "b" >> },
                       f \in SeqsUpTo(NewsItems, MaxHits),
                       sd \in SeqsUpTo(NewsItems, 1) }

SearchWithFallback(fail) ==
    /\ news_call.pc = "input"
    /\ news_call' = [ news_call EXCEPT
                        !.pc = "done",
                        !.ret = search_with_fallback(news_call.agent, news_call.startup_name,
                                    news_call.first, news_call.second, fail) ]
    /\ UNCHANGED << orch_vars, index_vars, pq, ck, gr, db, api, ui, dash, chat_call, dag,
                    nd, scrape, health, race, signup_calls >>

NextNews == \E fail \in 0..2 : SearchWithFallback(fail)

SpecNews == InitNews /\ [][NextNews]_vars

(***************************************************************************)
(* backend/pipeline/scrape_growjo.py: the pagination loop of               *)
(* scrape_growjo_data, from the first result page to the returned CSV.     *)
(* A page is [next, nrows]: it shows a li.next with a[href], and nrows     *)
(* table rows.  A line of the table or of the CSV is [cells, page, k]: the *)
(* th texts of the head, or the td texts of row k of page p.               *)
(***************************************************************************)
\* the pagination check with the click outside any try
paginate_Unguarded(page, click) ==
    IF page.next
    THEN IF click = "fail" THEN "raise" ELSE "continue"
    ELSE "break"

\* the pagination check of one iteration; click: "ok" (the next page is
\* shown after the sleep), "stale" (the click went through, the page source
\* is still the old one after the sleep), "fail" (the wait or the click raises)
paginate(page, click) ==
    IF page.next
    THEN IF click = "fail" THEN "break" ELSE "continue"
    ELSE "break"

InitScrape ==
    /\ InitOrchIdle
    /\ InitIndexIdle
    /\ pq = PqIdle /\ ck = CkIdle /\ gr = GrIdle
    /\ db = ExtIdle /\ api = ExtIdle /\ ui = ExtIdle /\ dash = ExtIdle
    /\ chat_call = ExtIdle /\ dag = ExtIdle
    /\ nd = ExtIdle /\ news_call = ExtIdle /\ health = ExtIdle
    /\ race = ExtIdle /\ signup_calls = ExtIdle
    /\ scrape \in { [ pc |-> "loop", site |-> st, cur |-> 1, headers |-> << >>,
                      all_rows |-> << >>, parsed |-> << >>, clicks |-> << >>,
                      csv |-> << >> ] :
                    st \in SeqsUpTo([ next : BOOLEAN, nrows : 1..2 ], MaxPages) \ { << >> } }

\* one iteration of `while True`, and on break the code after the loop
ScrapePage(table_ok, click) ==
    /\ scrape.pc = "loop"
    /\ Len(scrape.parsed) < MaxParses
    /\ IF ~table_ok
       THEN \* wait.until(table) times out: the exception leaves the function
            scrape' = [ scrape EXCEPT !.pc = "raised" ]
       ELSE LET page == scrape.site[scrape.cur]
                headers == IF scrape.headers = << >>
                           THEN << [ cells |-> "th", page |-> 0, k |-> 0 ] >>
                           ELSE scrape.headers
                all_rows == scrape.all_rows \o
                              [ k \in 1..page.nrows |->
                                  [ cells |-> "td", page |-> scrape.cur, k |-> k ] ]
                way == paginate(page, click)
                shown == IF click = "ok" /\ scrape.cur < Len(scrape.site)
                         THEN scrape.cur + 1 ELSE scrape.cur
            IN scrape' = [ scrape EXCEPT
                             !.headers = headers,
                             !.all_rows = all_rows,
                             !.parsed = Append(@, scrape.cur),
                             !.clicks = Append(@, IF page.next THEN click ELSE "none"),
                             !.cur = IF way = "continue" THEN shown ELSE @,
                             !.pc = CASE way = "continue" -> "loop"
                                      [] way = "break" -> "done"
                                      [] way = "raise" -> "raised",
                             !.csv = IF way = "break" THEN headers \o all_rows
                                     ELSE @ ]
    /\ UNCHANGED << orch_vars, index_vars, pq, ck, gr, db, api, ui, dash, chat_call, dag,
                    nd, news_call, health, race, signup_calls >>

NextScrape ==
    \E table_ok \in BOOLEAN, click \in { "ok", "stale", "fail" } : ScrapePage(table_ok, click)

SpecScrape == InitScrape /\ [][NextScrape]_vars

(***************************************************************************)
(* Two EmbeddingManager.update_investment_status calls for the same        *)
(* startup running at the same time (two threads or two processes of the   *)
(* service over the one index).  The method takes no lock and the index    *)
(* offers no transaction: each index.query, index.fetch and index.upsert   *)
(* is a step of its own.                                                   *)
(***************************************************************************)
\* an upsert that rewrites every record of the startup at once
upsert_AllRecords(idx, record_id, metadata) ==
    [ i \in 1..Len(idx) |->
        IF idx[i].startup_name = metadata.startup_name
        THEN [ idx[i] EXCEPT !.invested = metadata.invested ]
        ELSE idx[i] ]

\* index.upsert([(record_id, vector, metadata)])
upsert(idx, record_id, metadata) == [ idx EXCEPT ![record_id] = metadata ]

InitRace ==
    /\ InitOrchIdle
    /\ InitIndexIdle
    /\ pq = PqIdle /\ ck = CkIdle /\ gr = GrIdle
    /\ db = ExtIdle /\ api = ExtIdle /\ ui = ExtIdle /\ dash = ExtIdle
    /\ chat_call = ExtIdle /\ dag = ExtIdle
    /\ nd = ExtIdle /\ scrape = ExtIdle /\ news_call = ExtIdle /\ health = ExtIdle
    /\ signup_calls = ExtIdle
    /\ race \in { [ index |-> Preloaded(MaxRecords),
                    call |-> [ c \in 1..2 |->
                                 [ pc |-> "query", status |-> st[c], ids |-> << >>, k |-> 0,
                                   metadata |-> Metadata("", "", "") ] ] ] :
                  st \in [ 1..2 -> { "yes", "no" } ] }

\* the next index operation of call c: the query for the startup's ids, the
\* fetch of the k-th record, or the upsert of that record with
\* metadata["invested"] = status
UpdateStep(c) ==
    LET me == race.call[c] IN
    /\ me.pc # "done"
    /\ CASE me.pc = "query" ->
              LET matching == MatchIds(race.index, "uber", UpdateTopK)
                  ids == [ j \in 1..Cardinality(matching) |->
                             CHOOSE i \in matching : Rank(race.index, "uber", i) = j ]
              IN race' = [ race EXCEPT ![ "call" ][c] =
                             [ me EXCEPT !.ids = ids, !.k = 1,
                                         !.pc = IF ids = << >> THEN "done" ELSE "fetch" ] ]
         [] me.pc = "fetch" ->
              race' = [ race EXCEPT ![ "call" ][c] =
                          [ me EXCEPT !.metadata = race.index[me.ids[me.k]],
                                      !.pc = "upsert" ] ]
         [] me.pc = "upsert" ->
              race' = [ race EXCEPT
                          !.index = upsert(race.index, me.ids[me.k],
                                           [ me.metadata EXCEPT !.invested = me.status ]),
                          ![ "call" ][c] =
                             [ me EXCEPT !.k = @ + 1,
                                         !.pc = IF me.k = Len(me.ids) THEN "done"
                                                ELSE "fetch" ] ]
    /\ UNCHANGED << orch_vars, index_vars, pq, ck, gr, db, api, ui, dash, chat_call, dag,
                    nd, scrape, news_call, health, signup_calls >>

NextRace == \E c \in 1..2 : UpdateStep(c)

SpecRace == InitRace /\ [][NextRace]_vars

(***************************************************************************)
(* backend/database/investor_login.py: signup_investor calls running at    *)
(* the same time (the /investor-signup-auth handler is a plain `def`, run  *)
(* in the server's thread pool).  The select of the duplicate check and    *)
(* the insert are two requests to Supabase.  The definition of the table   *)
(* InvestorLogin is not part of the repository: unique_email says whether  *)
(* it declares email unique, in which case the insert of a second record   *)
(* raises.                                                                 *)
(***************************************************************************)
InitSignup ==
    /\ InitOrchIdle
    /\ InitIndexIdle
    /\ pq = PqIdle /\ ck = CkIdle /\ gr = GrIdle
    /\ db = ExtIdle /\ api = ExtIdle /\ ui = ExtIdle /\ dash = ExtIdle
    /\ chat_call = ExtIdle /\ dag = ExtIdle
    /\ nd = ExtIdle /\ scrape = ExtIdle /\ news_call = ExtIdle /\ health = ExtIdle
    /\ race = ExtIdle
    /\ signup_calls \in { [ table |-> << >>, unique_email |-> u,
                            call |-> [ c \in 1..MaxSignups |->
                                         [ pc |-> "check", email |-> e[c], status |-> "" ] ] ] :
                          u \in BOOLEAN, e \in [ 1..MaxSignups -> { "", "a@x", "b@x" } ] }

\* the next request of call c: the missing-field test and the select of the
\* duplicate check, or the insert and the return
SignupStep(c) ==
    LET me == signup_calls.call[c]
        registered == \E i \in 1..Len(signup_calls.table) :
                          signup_calls.table[i].email = me.email
    IN
    /\ me.pc # "done"
    /\ CASE me.pc = "check" ->
              signup_calls' = [ signup_calls EXCEPT ![ "call" ][c] =
                   IF me.email = "" \/ registered
                   THEN [ me EXCEPT !.pc = "done", !.status = "error" ]
                   ELSE [ me EXCEPT !.pc = "insert" ] ]
         [] me.pc = "insert" ->
              IF signup_calls.unique_email /\ registered
              THEN signup_calls' = [ signup_calls EXCEPT ![ "call" ][c] =
                                       [ me EXCEPT !.pc = "done", !.status = "raise" ] ]
              ELSE signup_calls' = [ signup_calls EXCEPT
                                       !.table = Append(@, [ email |-> me.email, by |-> c ]),
                                       ![ "call" ][c] =
                                          [ me EXCEPT !.pc = "done", !.status = "success" ] ]
    /\ UNCHANGED << orch_vars, index_vars, pq, ck, gr, db, api, ui, dash, chat_call, dag,
                    nd, scrape, news_call, health, race >>

NextSignup == \E c \in 1..MaxSignups : SignupStep(c)

SpecSignup == InitSignup /\ [][NextSignup]_vars

(***************************************************************************)
(* Properties                                                              *)
(***************************************************************************)
IsPrefix(a, b) == Len(a) <= Len(b) /\ SubSeq(b, 1, Len(a)) = a

FullOrder ==
    << "process_pitch_deck", "fetch_summary", "fetch_industry_report",
       "fetch_competitors", "generate_report", "store_report", "fetch_news" >>

ExpectedOrder == IF state.pdf_file_path # "" THEN FullOrder ELSE Tail(FullOrder)

Running == node \notin { "idle", "END", "raised" }

\* C1: the nodes a run has executed are always an initial part of: process
\* pitch deck (only when the incoming state has a non-empty pitch-deck path),
\* fetch summary, fetch industry report, fetch competitors, generate report,
\* store report, fetch news; the node about to run is the next one of that
\* order, one node at a time; a run that reaches END has executed the whole
\* order, each node once, fetch news last.  (A run one of whose nodes raises
\* stops at that node.)
C1_StepOrder ==
    /\ IsPrefix(trace, ExpectedOrder)
    /\ Running => /\ Len(trace) < Len(ExpectedOrder)
                  /\ node = ExpectedOrder[Len(trace) + 1]
    /\ node = "END" => trace = ExpectedOrder
    /\ node = "raised" => trace # << >>

C1_Witness ==
    /\ node = "END"
    /\ trace = FullOrder
    /\ state.pdf_file_path # ""

\* C2: generate report calls the model only when the state holds a summary,
\* an industry report and a non-empty competitor list; when one of the three
\* is absent the final report is the fixed string and no model call is made.
C2_Holds(s) == s.summary # NoSummary /\ s.industry_report # "" /\ s.competitors # << >>

C2_GenerateReportGuard ==
    gr.pc = "done" =>
        /\ (\E i \in 1..Len(gr.calls) : gr.calls[i] = "generate_content") => C2_Holds(gr.s)
        /\ ~C2_Holds(gr.s) =>
              /\ gr.final_report = "Unable to generate report: Missing required data"
              /\ gr.calls = << >>
              /\ ~gr.raised

C2_Witness ==
    /\ gr.pc = "done"
    /\ gr.s.summary # NoSummary
    /\ gr.s.industry_report # ""
    /\ gr.s.competitors = << >>
    /\ gr.final_report = "Unable to generate report: Missing required data"

Answered(ep) == response.endpoint = ep /\ response.status_code # 0

\* C3: whenever the run started by /process-pitch-deck recorded an error, the
\* request is answered with 500 carrying that error text, never with 200.
C3_ErrorSurfacedAs500 ==
    (Answered("process-pitch-deck") /\ node_error # "") =>
        (response.status_code = 500 /\ response.detail = node_error)

\* C4: the temporary directory exists during the whole orchestrator run of a
\* /process-pitch-deck request and is removed once the request is answered,
\* whatever the answer.
C4_TempDirLifetime ==
    /\ endpoint = "process-pitch-deck" => temp_dir = "exists"
    /\ Answered("process-pitch-deck") => temp_dir = "removed"

C4_Witness ==
    /\ Answered("process-pitch-deck")
    /\ response.status_code = 500
    /\ response.detail = "Processing error: <exception text>"
    /\ temp_dir = "removed"

\* C5: for every successful /process-pitch-deck request, the summary field of
\* the response is the summary text the summarization step generated in that
\* run.
C5_SummaryReturned ==
    (Answered("process-pitch-deck") /\ response.status_code = 200 /\ node_error = "") =>
        response.summary = generated_summary

\* C7: storing a summary under a name that differs only in letter case from
\* a name already in the index returns failure and adds no record.
C7_CaseVariantRefused ==
    (last_op.op = "store" /\ last_op.called /\ last_op.pre_dup) =>
        (~last_op.ok /\ Len(index) = last_op.pre_len)

AllOf(name, status) ==
    \A i \in 1..Len(index) :
        index[i].startup_name = name => SearchResult(index, i).invested = status

HitsAgree(name, status) ==
    \A i \in 1..Len(last_op.hits) :
        last_op.hits[i].startup_name = name => last_op.hits[i].invested = status

C9_StatusValidated ==
    last_op.op = "update" =>
        IF last_op.status \in { "yes", "no" }
        THEN last_op.called
        ELSE last_op.status_code = 400 /\ ~last_op.called

\* C9 amended: with the embedding manager available the endpoint answers 400
\* for every status other than "yes" and "no" without calling the update and
\* calls the update for "yes" and "no"; with the manager unavailable it
\* answers 503 for every status and calls nothing.
C9_StatusValidatedWhenAvailable ==
    last_op.op = "update" =>
        IF ~pm_embedding_manager
        THEN last_op.status_code = 503 /\ ~last_op.called
        ELSE IF last_op.status \in { "yes", "no" }
        THEN last_op.called /\ last_op.status_code \in { 200, 404 }
        ELSE last_op.status_code = 400 /\ ~last_op.called

C9_Witness ==
    /\ last_op.op = "update"
    /\ pm_embedding_manager
    /\ last_op.status = "maybe"
    /\ last_op.status_code = 400

C6_AllBelow(results) ==
    /\ results # << >>
    /\ \A i \in 1..Len(results) :
          i <= 5 => /\ results[i].kind # "other"
                    /\ (results[i].kind = "number" => results[i].score < 3)

\* C6: process query makes no model call when the result list is empty or
\* when every score among its first five results is below 0.3; in the second
\* case the answer is the fixed "don't have specific information" message;
\* and no call makes more than one model call.
C6_RelevanceGate ==
    pq.pc = "done" =>
        /\ pq.search_results = << >> => pq.model_calls = 0
        /\ C6_AllBelow(pq.search_results) =>
              (pq.model_calls = 0 /\ pq.answer = MsgNoSpecific)
        /\ pq.model_calls <= 1

C6_Witness ==
    /\ pq.pc = "done"
    /\ Len(pq.search_results) = 6
    /\ C6_AllBelow(pq.search_results)
    /\ pq.search_results[6].score = 3
    /\ pq.answer = MsgNoSpecific
    /\ pq.model_calls = 0

RECURSIVE C10_Expected(_, _)
C10_Expected(lines, i) ==
    IF i = 0 THEN "none"
    ELSE LET l == Strip(lines[i]) IN
         IF l = << >> THEN "blank"
         ELSE IF Head(l) \in team_chunk_headers THEN "team"
         ELSE IF Head(l) \in business_chunk_headers THEN "business"
         ELSE LET prev == { j \in 1..(i - 1) :
                              /\ Strip(lines[j]) # << >>
                              /\ Head(Strip(lines[j])) \in
                                    team_chunk_headers \cup business_chunk_headers }
              IN IF prev = { } THEN "none"
                 ELSE C10_Expected(lines, CHOOSE j \in prev : \A k \in prev : k <= j)

\* C10: in the two-way split a line headed by a team keyword is put in the
\* team chunk, a line headed by a business keyword in the business chunk,
\* and a line that follows and is headed by neither goes where the most
\* recent headed line went.
C10_HeadedLinesBucketed ==
    ck.pc = "done" =>
        \A i \in 1..Len(ck.lines) :
            C10_Expected(ck.lines, i) \in { "team", "business" }
                => ck.assign[i] = C10_Expected(ck.lines, i)

\* C11: for an existing startup and any list of usernames, a map startup to
\* investors call that no database error interrupts adds exactly one bridge
\* row, with status "Not Viewed" and a null invested amount, for each listed
\* username that resolves to an investor and none for the unknown ones.
C11_MappingSkipsUnknown ==
    (api.op = "map" /\ api.hit /\ api.fail = "none") =>
        LET new == SubSeq(db.map, api.pre + 1, Len(db.map))
            known == { i \in 1..Len(api.names) :
                         \E j \in 1..Len(db.investor) :
                             Lower(db.investor[j].username) = Lower(api.names[i]) }
        IN /\ Len(new) = Cardinality(known)
           /\ \A k \in 1..Len(new) :
                 /\ new[k].status = "Not Viewed"
                 /\ new[k].invested_amount = None
                 /\ Lower(db.startup[new[k].startup_id]) = Lower(api.name)
           /\ \A j \in 1..Len(db.investor) :
                 Cardinality({ k \in 1..Len(new) : new[k].investor_id = j })
                     = Cardinality({ i \in known : Resolve(db, api.names[i]) = j })

C11_Witness ==
    /\ api.op = "map" /\ api.hit /\ api.fail = "none"
    /\ api.names = << "zed", "Alice" >>
    /\ Len(db.map) = api.pre + 1
    /\ db.map[Len(db.map)].investor_id = 1

\* C15: each lookup endpoint answers 404 when the requested investor,
\* startup or column value is absent and nothing else is wrong with the
\* request.
C15_AbsentIs404 ==
    (api.op = "lookup" /\ ~api.hit /\ api.fail = "none") => api.status_code = 404

\* C16: when insert investor hits a uniqueness violation, no investor row is
\* added and /add-investor-info does not answer with its success payload.
C16_ViolationReported ==
    (api.op = "add_investor" /\ api.hit /\ api.fail = "execute") =>
        (Len(db.investor) = api.pre /\ api.status_code # 200)

\* C17: after any sequence of investor signups through the front end, every
\* credential record of the auth store has a business-data investor record
\* with the same email and username, also when the second write fails.
C17_StoresCorrelated ==
    \A i \in 1..Len(db.auth) :
        \E j \in 1..Len(db.investor) :
            /\ db.investor[j].email = db.auth[i].email
            /\ db.investor[j].username = db.auth[i].username

\* C18: after a successful login the session holds is_logged_in = true and
\* the username the investor logged in with, and the dashboard entered
\* addresses that investor's record; dashboard content is never rendered
\* for a session whose is_logged_in flag is false.
C18_SessionAfterLogin ==
    /\ (api.op = "login" /\ api.hit) =>
          (ui.is_logged_in /\ ui.username = api.name /\ ui.rendered = "dashboard")
    /\ ui.rendered = "dashboard" => ui.is_logged_in

\* C12: /chat with an empty or whitespace-only query returns the guidance
\* message with results_count 0 and performs neither a vector search nor an
\* assistant call.
C12_EmptyQueryGuidance ==
    (chat_call.pc = "done"
        /\ \A i \in 1..Len(chat_call.query) : chat_call.query[i] = " ") =>
        /\ chat_call.payload.response = MsgGuidance
        /\ chat_call.payload.results_count = 0
        /\ ~chat_call.payload.searched
        /\ ~chat_call.payload.assistant

C12_Witness ==
    /\ chat_call.pc = "done"
    /\ chat_call.query = << " ", " " >>
    /\ chat_call.search.hits # << >>
    /\ chat_call.payload.response = MsgGuidance

\* C13: /chat never answers with an HTTP error status: when the vector
\* search or the assistant call throws, the response is a normal payload
\* with the apology text, results_count 0 and the error detail; and the
\* assistant is called only when the search returned at least one hit.
C13_ChatFailuresSoft ==
    chat_call.pc = "done" =>
        /\ chat_call.payload.status_code = 200
        /\ (chat_call.payload.searched
              /\ (chat_call.search.raised
                    \/ \E i \in 1..Len(chat_call.search.hits) :
                           chat_call.search.hits[i].kind = "other"))
              => /\ chat_call.payload.response = MsgApology
                 /\ chat_call.payload.results_count = 0
                 /\ chat_call.payload.error # ""
        /\ chat_call.payload.assistant =>
              (~chat_call.search.raised /\ Len(chat_call.search.hits) >= 1)

C13_Witness ==
    /\ chat_call.pc = "done"
    /\ chat_call.search.hits # << >>
    /\ chat_call.payload.assistant
    /\ chat_call.payload.response = MsgApology
    /\ chat_call.payload.error # ""

\* C14: process query returns a string and lets no exception reach its
\* caller, for every list of search results, whatever fails while
\* inspecting or formatting the results or invoking the model.
C14_NeverRaises ==
    pq.pc = "done" => ~pq.raised

\* C19: after "Ask Anything" is clicked the main panel shows the chat on
\* every following rerun until the investor clicks "Return to Startups" or
\* changes the startup selection; and the panel never shows the chat and a
\* startup's detail tabs in the same render.
C19_ChatModePersists ==
    /\ dash.chat_mode => "chat" \in dash.panel
    /\ ~({ "chat", "tabs" } \subseteq dash.panel)

C21_OneBranchEnough ==
    LET direct == "extract_reports.process_direct_pdfs"
        html == "extract_reports.process_html_reports"
    IN  \A empty \in { direct, html } : \A other \in { direct, html } \ { empty } :
           ( /\ dag.tries[empty] > 0 /\ dag.out[empty] = { }
             /\ dag.tries[other] > 0 /\ dag.out[other] # { }
             /\ dag.state["generate_summaries"] # "none" )
           => /\ \A t \in Tasks \ { "initialize_snowflake", "store_in_snowflake",
                                    "store_in_pinecone" } :
                    dag.state[t] \notin { "failed", "upstream_failed" }
              /\ dag.tries["generate_summaries"] = 1
              /\ dag.handed["generate_summaries"] = dag.out[other]

\* C24: a fetch node that makes its data-layer lookup stores exactly the
\* value the lookup returns -- for the state's startup name (summary), for
\* the summary's industry (report, competitors) -- in its own field, and
\* every call leaves every other field of the state as it was.
C24_FetchStoresLookup ==
    nd.pc = "done" =>
        LET own == CASE nd.node = "fetch_summary" -> "summary"
                     [] nd.node = "fetch_industry_report" -> "industry_report"
                     [] nd.node = "fetch_competitors" -> "competitors"
            before == NodeInput(nd.s)
        IN  /\ \A k \in DOMAIN before \ { own } : nd.ret[k] = before[k]
            /\ (nd.calls # << >> /\ ~nd.raised) =>
                  nd.ret[own] =
                     CASE nd.node = "fetch_summary" ->
                              get_startup_summary(wh_summary, nd.s.startup_name)
                       [] nd.node = "fetch_industry_report" ->
                              get_industry_report(nd.s.summary.INDUSTRY)
                       [] nd.node = "fetch_competitors" ->
                              get_top_companies(nd.s.summary.INDUSTRY)

C24_Witness ==
    /\ nd.pc = "done"
    /\ nd.node = "fetch_industry_report"
    /\ IsDict(nd.s.summary)
    /\ nd.s.summary.INDUSTRY = "travel"
    /\ nd.s.industry = "Unknown"
    /\ nd.calls = << "get_industry_report" >>
    /\ nd.ret.industry_report = "travel report"
    /\ nd.ret.competitors = SubSeq(Companies, 1, 1)

\* C25: fetch summary makes no warehouse query when the state already holds
\* a summary dict; fetch industry report and fetch competitors make no
\* data-layer call when the summary is missing, is not a dict or has no
\* industry, and set the placeholder string resp. the empty list instead.
C25_FetchGuards ==
    nd.pc = "done" =>
        LET dict == nd.s.summary # NoSummary /\ IsDict(nd.s.summary)
            no_industry == ~dict \/ nd.s.summary.INDUSTRY = ""
        IN  /\ (nd.node = "fetch_summary" /\ dict) =>
                  nd.calls = << >> /\ nd.ret.summary = nd.s.summary
            /\ (nd.node = "fetch_industry_report" /\ no_industry) =>
                  /\ nd.calls = << >>
                  /\ nd.ret.industry_report =
                        IF dict THEN "No industry report available - industry not specified"
                        ELSE "No industry report available - summary data missing"
            /\ (nd.node = "fetch_competitors" /\ no_industry) =>
                  nd.calls = << >> /\ nd.ret.competitors = << >>

C25_Witness ==
    /\ nd.pc = "done"
    /\ nd.node = "fetch_competitors"
    /\ nd.s.summary = [ text |-> "plain text" ]
    /\ nd.s.competitors # << >>
    /\ nd.calls = << >>
    /\ nd.ret.competitors = << >>

\* C28: when process_pitch_deck recorded an error, no later step of that run
\* queries the warehouse for the startup, invokes the generative model, or
\* writes a report or a news text to the warehouse.
C28_ErrorShortCircuits ==
    node_error # "" =>
        \A i \in 1..Len(calls) :
            calls[i] \notin { "get_startup_summary", "generate_content",
                              "store_analysis_report", "store_news_in_snowflake" }

\* C29: an answered /analyze request whose run no node left by exception ran
\* the graph from fetch_summary and is answered 200 with the run's final
\* report, whatever requests were handled before it, none included.
C29_AnalyzeAlwaysRuns ==
    (Answered("analyze") /\ response.detail # "<exception text>") =>
        /\ response.status_code = 200
        /\ trace # << >> /\ trace[1] = "fetch_summary"
        /\ response.final_report = Get(state, "final_report")

\* C26: /health answers status "ok" when every required environment variable
\* is set, and status "warning" naming exactly the missing variables when one
\* or more are missing.
C26_HealthReportsMissing ==
    health.answered > 0 =>
        IF RequiredVars \subseteq health.env
        THEN health.answer.status = "ok"
        ELSE /\ health.answer.status = "warning"
             /\ health.answer.named = RequiredVars \ health.env

\* C23: the news search issues the industry query exactly when no result of
\* the startup query holds the startup's name, letter case ignored, in its
\* title plus snippet/content (also when that query returned nothing); it
\* labels the returned set "Industry-Based" then and "Startup-Specific"
\* otherwise, returns the results of the last query issued, and makes at most
\* two searches.
C23_FallbackExactlyWhenIrrelevant ==
    news_call.pc = "done" =>
        LET low(t) == [ i \in 1..Len(t) |->
                          IF t[i] = "U" THEN "u" ELSE IF t[i] = "B" THEN "b" ELSE t[i] ]
            text(r) == IF news_call.agent = "mcp" THEN r.title \o r.snippet
                       ELSE r.title \o << " " >> \o r.snippet
            name == low(news_call.startup_name)
            holds(r) == \E i \in 1..Len(text(r)) :
                           /\ i + Len(name) - 1 <= Len(text(r))
                           /\ \A j \in 1..Len(name) : low(text(r))[i + j - 1] = name[j]
            none == \A k \in 1..Len(news_call.first) : ~holds(news_call.first[k])
        IN  /\ Len(news_call.ret.queries) <= 2
            /\ ("industry" \in { news_call.ret.queries[i] :
                                   i \in 1..Len(news_call.ret.queries) }) <=>
                  (none /\ news_call.ret.queries # << >> /\
                   ~(news_call.ret.raised /\ Len(news_call.ret.queries) = 1))
            /\ ~news_call.ret.raised =>
                  /\ news_call.ret.search_type =
                        IF none THEN "Industry-Based" ELSE "Startup-Specific"
                  /\ news_call.ret.results =
                        IF none THEN news_call.second ELSE news_call.first

C23_Witness ==
    /\ news_call.pc = "done"
    /\ news_call.agent = "tavily"
    /\ news_call.startup_name = << "U", "b" >>
    /\ news_call.first = << [ title |-> << "x", "u" >>, snippet |-> << "b" >> ] >>
    /\ news_call.ret.queries = << "startup", "industry" >>
    /\ news_call.ret.search_type = "Industry-Based"
    /\ news_call.ret.results = news_call.second
    /\ news_call.second # << >>

C27_RecordAtATime ==
    [][ LET changed == { i \in 1..Len(race.index) : race'.index[i] # race.index[i] }
        IN /\ Cardinality(changed) <= 1
           /\ \A i \in changed :
                 \E c \in 1..2 : /\ race.call[c].pc = "upsert"
                                 /\ race'.call[c].pc # "upsert"
                                 /\ race'.index[i].invested = race.call[c].status ]_vars

C27_Witness ==
    /\ race.call[1].pc = "done"
    /\ race.call[2].pc = "done"
    /\ race.call[1].status # race.call[2].status
    /\ \E i, j \in 1..Len(race.index) :
          /\ race.index[i].startup_name = race.index[j].startup_name
          /\ race.index[i].invested # race.index[j].invested

\* C30: after any sequence and any interleaving of signup calls the
\* credential store holds at most one record per email, and a signup for an
\* email that is registered when it comes to insert returns the error
\* envelope (it raises nothing) and inserts nothing.
C30_OneRecordPerEmail ==
    /\ \A i, j \in 1..Len(signup_calls.table) :
          signup_calls.table[i].email = signup_calls.table[j].email => i = j
    /\ \A c \in 1..MaxSignups : signup_calls.call[c].status # "raise"

====
